---- MODULE Spec2Model ----
(***************************************************************************)
(* Model of pr-messaging-bot: the Correlation Store (src/storage.ts), the  *)
(* messaging client (src/slack.ts), the message formatters                 *)
(* (src/formatters.ts) and the reconciliation engine (index.ts, found as   *)
(* src/unnamed/part_001 lines 1-442).                                      *)
(*                                                                         *)
(* JavaScript strings are modelled as sequences of tokens (each token a    *)
(* TLA+ string), so that String.includes is a real contiguous-subsequence  *)
(* test and the empty string is the empty sequence.                        *)
(***************************************************************************)
EXTENDS Integers, Sequences, FiniteSets, TLC

\* ------------------------------------------------------------------ bounds
\* largest capacity tried for a stand-alone store
MaxCap == 2
\* number of webhook handlers that can be in flight at once
NumHandlers == 2
\* channel size cap (each cycle posts at most two messages)
MaxMsgs == 3
\* number of process restarts explored
MaxRestarts == 2
\* longest sequence of Storage.set calls followed from construction
MaxTrail == 4
\* largest channel (messages and replies together) a stand-alone scan runs over
MaxHist == 2
\* most messages the server puts in one history response
MaxPage == 2
\* most history requests followed within one scan
MaxFetches == 3
\* largest capacity tried for the lookup cache
MaxFindCache == 2
\* most summaries in the channel of the lookup-cache runs
MaxSummaries == 3
\* largest debounce window tried (clock ticks)
MaxWindow == 2
\* most deliveries followed through scheduleSync
MaxArrivals == 3
\* last clock tick of a debounce run
MaxTime == 4
\* channel size cap of the comment-handler runs
MaxKwMsgs == 4

\* --------------------------------------------------------- program constants
\* default scan window of findMessageByKey
DefaultMaxMessages == 400
\* default capacity of the SlackClient lookup cache
DefaultFindCacheSize == 100
\* page size findMessageByKey asks iterateHistory to use
PageSize == 200
\* limit of the one conversations.replies request of iterateThreadReplies
RepliesLimit == 100

\* --------------------------------------------------------------- text model
Undefined == 0

DigitStr(d) ==
  CASE d = 0 -> "0" [] d = 1 -> "1" [] d = 2 -> "2" [] d = 3 -> "3" [] d = 4 -> "4"
    [] d = 5 -> "5" [] d = 6 -> "6" [] d = 7 -> "7" [] d = 8 -> "8" [] OTHER -> "9"

RECURSIVE NumStr(_)
\* template-literal interpolation of a non-negative number: its decimal digits
NumStr(n) == IF n < 10 THEN <<DigitStr(n)>> ELSE NumStr(n \div 10) \o <<DigitStr(n % 10)>>

\* String.prototype.includes
Includes(s, t) == \E i \in 0..(Len(s) - Len(t)) : SubSeq(s, i + 1, i + Len(t)) = t

\* JavaScript truthiness of a string: only the empty string is falsy
Truthy(s) == s # <<>>

\* JavaScript values other than plain strings: undefined, NaN, numbers, strings as values, objects
\* with a text property
JsUndefined == [t |-> "undefined"]
JsNaN == [t |-> "NaN"]
JsNum(n) == [t |-> "number", v |-> n]
JsStr(s) == [t |-> "string", s |-> s]
JsObj(text) == [t |-> "object", text |-> text]

\* a ?? b
Coalesce(a, b) == IF a = JsUndefined THEN b ELSE a

\* truthiness of a value: undefined, NaN, 0 and "" are falsy, an object is truthy
JsTruthy(x) ==
  CASE x.t = "number" -> x.v # 0
    [] x.t = "string" -> x.s # <<>>
    [] x.t = "object" -> TRUE
    [] OTHER -> FALSE

NumberIsNaN(x) == x = JsNaN

\* `${owner}/${repo}#${prNumber}` for the one repository of the model
PrKey(n) == <<"owner/repo#">> \o NumStr(n)

\* ---------------------------------------------------------- Storage (Map)
\* The Map is a sequence of entries in insertion order.
Has(c, k) == \E i \in 1..Len(c) : c[i].key = k

StorageGet(c, k) ==
  IF Has(c, k) THEN (CHOOSE e \in {c[i] : i \in 1..Len(c)} : e.key = k).val ELSE Undefined

\* a Map whose set moves an existing key to the end
MapSetRefresh(c, k, v) == Append(SelectSeq(c, LAMBDA e : e.key # k), [key |-> k, val |-> v])

\* Map.prototype.set: an existing key keeps its position, a new key goes last
MapSet(c, k, v) ==
  IF Has(c, k)
  THEN [i \in 1..Len(c) |-> IF c[i].key = k THEN [key |-> k, val |-> v] ELSE c[i]]
  ELSE Append(c, [key |-> k, val |-> v])

MapDelete(c, k) == SelectSeq(c, LAMBDA e : e.key # k)

\* the eviction guard of Storage.set: `if (firstKey) this.cache.delete(firstKey)`
EvictGuard(c) == Len(c) > 0 /\ Truthy(c[1].key)

StorageSet(c, max, k, v) ==
  LET c1 == IF ~Has(c, k) /\ Len(c) >= max
            THEN (IF EvictGuard(c) THEN MapDelete(c, c[1].key) ELSE c)
            ELSE c
  IN MapSet(c1, k, v)

StorageDelete(c, k) == MapDelete(c, k)

StorageSize(c) == Len(c)

KeysOf(c) == {c[i].key : i \in 1..Len(c)}

\* ------------------------------------------------------------- formatters
UserMap == [alice |-> "alice.slack"]

mapUser(m, login) == IF login \in DOMAIN m THEN <<"@", m[login]>> ELSE <<"@", login>>

reviewerEmoji(status) ==
  CASE status = "approved" -> "ok" [] status = "changes_requested" -> "x" [] OTHER -> "yellow"

checkEmoji(status) ==
  CASE status = "success" -> "ok" [] status = "failure" -> "x" [] OTHER -> "clock"

CountStatus(checks, status) == Cardinality({i \in 1..Len(checks) : checks[i].status = status})

RECURSIVE JoinReviewers(_, _)
JoinReviewers(m, rs) ==
  IF rs = <<>> THEN <<>>
  ELSE mapUser(m, rs[1].login) \o <<" ", reviewerEmoji(rs[1].status)>>
       \o (IF Len(rs) > 1 THEN <<", ">> ELSE <<>>) \o JoinReviewers(m, Tail(rs))

RECURSIVE JoinChecks(_)
JoinChecks(cs) ==
  IF cs = <<>> THEN <<>>
  ELSE <<checkEmoji(cs[1].status), " ", cs[1].name>>
       \o (IF Len(cs) > 1 THEN <<"\n">> ELSE <<>>) \o JoinChecks(Tail(cs))

Marker(key) == <<"<!-- ", "pr-messaging-bot:">> \o key \o <<" -->">>

buildMainMessage(state, mapping) ==
  LET header == <<"[owner/repo] - ", state.title, " (#">> \o NumStr(state.number)
                \o <<") ", "https://github.com/owner/repo/pull/">> \o NumStr(state.number)
      author == <<"Author: ">> \o mapUser(mapping, state.author)
      reviewersLine == IF Len(state.reviewers) = 0 THEN <<"Reviewers: (none)">>
                       ELSE <<"Reviewers: ">> \o JoinReviewers(mapping, state.reviewers)
      statusLine == <<"Status: ">> \o NumStr(CountStatus(state.checks, "success")) \o <<"/">>
                    \o NumStr(Len(state.checks)) \o <<" checks passed">>
      lifecyclePrefix == IF state.merged THEN <<"Merged | ">>
                         ELSE IF state.closed /\ ~state.merged THEN <<"Closed | ">> ELSE <<>>
  IN lifecyclePrefix \o header \o <<"\n">> \o author \o <<"\n">> \o reviewersLine \o <<"\n">>
     \o statusLine \o <<"\n">> \o Marker(PrKey(state.number))

NoChecksText == <<"No checks reported.">>
BreakdownHeader == <<"Checks breakdown (passed/failed/pending):">>

buildThreadMessage(state) ==
  IF Len(state.checks) = 0 THEN NoChecksText
  ELSE LET passed == CountStatus(state.checks, "success")
           failed == CountStatus(state.checks, "failure")
           pending == Len(state.checks) - passed - failed
       IN BreakdownHeader \o <<" ">> \o NumStr(passed) \o <<"/">> \o NumStr(failed) \o <<"/">>
          \o NumStr(pending) \o <<"\n">> \o JoinChecks(state.checks)

\* ----------------------------------------------------------- slack client
RECURSIVE JoinLines(_)
JoinLines(parts) ==
  IF parts = <<>> THEN <<>>
  ELSE parts[1] \o (IF Len(parts) > 1 THEN <<"\n">> ELSE <<>>) \o JoinLines(Tail(parts))

\* A block is [text, fields, elements]: text is a value (undefined, a string or a text object),
\* fields and elements are arrays of values (<<>> also stands for a property that is no array).
\* an extractor that collects plain strings only
TextPartsStringsOnly(v) == IF JsTruthy(v) /\ v.t = "string" THEN <<v.s>> ELSE <<>>

\* `if (block.text) { string -> push(block.text); else if (block.text.text) push(block.text.text) }`
TextParts(v) ==
  IF ~JsTruthy(v) THEN <<>>
  ELSE IF v.t = "string" THEN <<v.s>>
  ELSE IF v.t = "object" /\ JsTruthy(v.text) THEN <<v.text.s>>
  ELSE <<>>

\* `for (const f of items) { if (!f) continue; string -> push(f); else if (f.text) push(f.text) }`
RECURSIVE ItemParts(_)
ItemParts(items) == IF items = <<>> THEN <<>> ELSE TextParts(items[1]) \o ItemParts(Tail(items))

RECURSIVE extractParts(_)
extractParts(blocks) ==
  IF blocks = <<>> THEN <<>>
  ELSE TextParts(blocks[1].text) \o ItemParts(blocks[1].fields) \o ItemParts(blocks[1].elements)
       \o extractParts(Tail(blocks))

extractTextFromBlocks(blocks) == JoinLines(extractParts(blocks))

getPlainTextFromMessage(m) ==
  JoinLines(SelectSeq(<<m.text, extractTextFromBlocks(m.blocks)>>, Truthy))

markerFragment(key) == <<"pr-messaging-bot:">> \o key

RECURSIVE Reverse(_)
Reverse(s) == IF s = <<>> THEN <<>> ELSE Append(Reverse(Tail(s)), s[1])

\* conversations.history: top-level messages, newest first (a message's ts is its index)
TopLevelNewestFirst(ms) == Reverse(SelectSeq([i \in 1..Len(ms) |-> i], LAMBDA i : ms[i].thread_ts = Undefined))

Max(a, b) == IF a > b THEN a ELSE b
Min(a, b) == IF a < b THEN a ELSE b

\* messages yielded by iterateHistory when every page fetch succeeds
iterateHistory(ms, maxMessages) ==
  LET all == TopLevelNewestFirst(ms)
      markerLimit == Max(1, maxMessages)
  IN SubSeq(all, 1, Min(Len(all), markerLimit))

\* first element of a sequence of ts satisfying a test, or Undefined
FirstTs(tss, Test(_)) ==
  LET hits == {i \in 1..Len(tss) : Test(tss[i])}
  IN IF hits = {} THEN Undefined ELSE tss[CHOOSE i \in hits : \A j \in hits : i <= j]

\* the scan of findMessageByKey (includeThread = false) over a successfully fetched history
scanHistory(ms, key, maxMessages) ==
  FirstTs(iterateHistory(ms, maxMessages),
          LAMBDA t : Includes(getPlainTextFromMessage(ms[t]), markerFragment(key)))

\* conversations.replies: the parent first, then its replies oldest first; the parent is skipped
iterateThreadWithParent(ms, parentTs) ==
  SelectSeq([i \in 1..Len(ms) |-> i], LAMBDA i : i = parentTs \/ ms[i].thread_ts = parentTs)

iterateThreadReplies(ms, parentTs) ==
  LET replies == SelectSeq([i \in 1..Len(ms) |-> i], LAMBDA i : ms[i].thread_ts = parentTs)
  IN SubSeq(replies, 1, Min(Len(replies), RepliesLimit - 1))

\* the scan of findReplyByMarker over a successfully fetched thread
scanReplies(ms, parentTs, fragment) ==
  FirstTs(iterateThreadReplies(ms, parentTs),
          LAMBDA t : Includes(getPlainTextFromMessage(ms[t]), fragment))

\* `while (size > findCacheSize) { oldest = keys().next().value; if (!oldest) break; delete(oldest) }`
RECURSIVE EvictOldest(_, _)
EvictOldest(fc, size) ==
  IF Len(fc) > size /\ Truthy(fc[1].key) THEN EvictOldest(Tail(fc), size) ELSE fc

\* lookup cache (Map in insertion order = least recently used first)
rememberKey(fc, size, key, ts) ==
  IF size <= 0 THEN fc
  ELSE EvictOldest(Append(MapDelete(fc, key), [key |-> key, val |-> ts]), size)

\* a lookup that never finds anything
lookupKeyMiss(fc, key) == Undefined

lookupKey(fc, key) == StorageGet(fc, key)

\* the cache after lookupKey: a hit moves the key to most recently used
lookupRefresh(fc, key) ==
  IF StorageGet(fc, key) = Undefined THEN fc
  ELSE Append(MapDelete(fc, key), [key |-> key, val |-> StorageGet(fc, key)])

\* ------------------------------------------------------------ event kinds
\* webhook deliveries the app registers handlers for (context.name, payload.action)
PullRequestKinds == {[name |-> "pull_request", action |-> a] :
  a \in {"opened", "reopened", "synchronize", "edited", "closed", "review_requested", "review_request_removed"}}
ReviewKinds == {[name |-> "pull_request_review", action |-> a] : a \in {"submitted", "dismissed"}}
IssueCommentKinds == {[name |-> "issue_comment", action |-> a] : a \in {"created", "edited", "deleted"}}
ReviewCommentKinds == {[name |-> "pull_request_review_comment", action |-> a] : a \in {"created", "edited", "deleted"}}
CheckKinds == {[name |-> "check_suite", action |-> "completed"], [name |-> "check_run", action |-> "completed"],
               [name |-> "status", action |-> ""]}
Kinds == PullRequestKinds \cup ReviewKinds \cup IssueCommentKinds \cup ReviewCommentKinds \cup CheckKinds
NoKind == [name |-> "", action |-> ""]

\* the `event` argument each handler hands to scheduleSync
EventArg(kind) ==
  IF kind \in PullRequestKinds \cup ReviewKinds THEN <<kind.action>>
  ELSE IF kind \in IssueCommentKinds \cup ReviewCommentKinds THEN <<kind.name, ".", kind.action>>
  ELSE <<kind.name>>

forceUpdateEvents ==
  {<<"issue_comment", ".", "created">>, <<"issue_comment", ".", "edited">>, <<"issue_comment", ".", "deleted">>,
   <<"pull_request_review_comment", ".", "created">>, <<"pull_request_review_comment", ".", "edited">>,
   <<"pull_request_review_comment", ".", "deleted">>, <<"pull_request_review", ".", "submitted">>}

ForceIssueOnly(event) == Truthy(event) /\ event \in forceUpdateEvents /\ event[1] = "issue_comment"

\* `event && forceUpdateEvents.has(event)`
Force(event) == Truthy(event) /\ event \in forceUpdateEvents

SkipUpdateThreadChanged(force, sameMain, sameThread) == ~force /\ sameMain /\ ~sameThread

\* the early return of updateRecord
SkipUpdate(force, sameMain, sameThread) == ~force /\ sameMain /\ sameThread

\* `if (force || !sameMain)`
UpdatesMain(force, sameMain) == force \/ ~sameMain

\* a detail that is pushed whenever the cycle is not skipped
UpdatesThreadAlways(force, sameThread) == TRUE

\* `if (force || !sameThread)`
UpdatesThread(force, sameThread) == force \/ ~sameThread

searchFragmentHeaderOnly(thread) == BreakdownHeader

\* the fragment recoverRecord looks for in the summary's thread
searchFragment(thread) == IF thread = NoChecksText THEN NoChecksText ELSE BreakdownHeader

\* a detail reply of recoverRecord posted outside the thread
recoverThreadParentNone(foundTs) == Undefined

\* recoverRecord: `postMessage({ channel, text: thread, thread_ts: foundTs })`
recoverThreadParent(foundTs) == foundTs

createThreadParentNone(mainTs) == Undefined

\* thread_ts of the detail message createRecord posts
createThreadParent(mainTs) == mainTs

executeSyncRethrow == "rejected"

\* how the promise of executeSync settles when an error is thrown inside its try block
executeSyncCatch == "resolved"

\* -------------------------------------------------------- aggregated state
AllPRs == {1, 12}
NoReviewers == <<>>
BobApproved == <<[login |-> "bob", status |-> "approved"]>>
NoChecks == <<>>
CiPending == <<[name |-> "ci", status |-> "pending"]>>
CiFailure == <<[name |-> "ci", status |-> "failure"]>>

\* the varying part of what fetchPullRequestState returns
Variant(r, c) == [reviewers |-> r, checks |-> c]
AllVariants == {Variant(NoReviewers, NoChecks), Variant(BobApproved, NoChecks),
                Variant(NoReviewers, CiPending), Variant(NoReviewers, CiFailure)}

AggState(n, v) ==
  [number |-> n, title |-> "title", author |-> "alice", merged |-> FALSE, closed |-> FALSE,
   reviewers |-> v.reviewers, checks |-> v.checks]

NoState == [number |-> 0, title |-> "", author |-> "", merged |-> FALSE, closed |-> FALSE,
            reviewers |-> <<>>, checks |-> <<>>]

buildMessages(state) == [main |-> buildMainMessage(state, UserMap), thread |-> buildThreadMessage(state)]

\* ------------------------------------------------------------------ state
Handlers == 1..NumHandlers
Objs == 1..(MaxCap + NumHandlers + 1)
NoText == <<>>
NoRec == [ts |-> Undefined, thread_ts |-> Undefined, last_main |-> NoText, last_thread |-> NoText]

VARIABLES
  cache,         \* Storage.cache: entries [key, val] in insertion order, val an object reference
  maxEntries,    \* Storage.maxEntries
  got,           \* result of the last stand-alone Storage.get
  recs,          \* heap of MessageRecord objects (records are shared by reference)
  findCache,     \* SlackClient.findCache, least recently used first
  findCacheSize, \* SlackClient.findCacheSize
  msgs,          \* the Slack channel: messages in posting order, ts = index
  loc,           \* per handler: position and locals of its executeSync call
  gh,            \* per handler: history of the current cycle (calls issued, snapshots)
  lastOk,        \* per pull request: aggregated state of the last cycle if it ran alone and succeeded
  restarts,      \* number of process restarts so far
  workers,       \* how many executeSync calls the dispatcher lets run at once
  inputs,        \* the deliveries explored: pull requests, event kinds, upstream states
  trail,         \* stand-alone Storage: the keys set since construction, while that is all that happened
  retry,         \* one withRateLimitRetry call: attempt, pending error, invocations and sleeps so far
  scan,          \* one findMessageByKey / findReplyByMarker call over a channel history
  deb,           \* scheduleSync with a debounce window: clock, timers, latestArgs, arrivals and runs
  kw,            \* the comment handlers: what the last delivery did in processKeywordComment
  prev           \* the cycle that finished before the current one, where cycles are followed in pairs

vars == <<cache, maxEntries, got, recs, findCache, findCacheSize, msgs, loc, gh, lastOk, restarts, workers, inputs, trail, retry, scan, deb, kw, prev>>

IdleLoc == [pc |-> "idle", num |-> 0, kind |-> NoKind, st |-> NoState, rec |-> Undefined,
            sameMain |-> FALSE, sameThread |-> FALSE, foundTs |-> Undefined, threadTs |-> Undefined,
            mainTs |-> Undefined]

IdleGh == [calls |-> <<>>, pre |-> NoRec, after |-> NoRec, solo |-> TRUE, cold |-> FALSE,
           outcome |-> "none", settled |-> "pending", path |-> "", reuse |-> FALSE, repeat |-> FALSE,
           sum0 |-> Undefined, rep0 |-> [none |-> Undefined, breakdown |-> Undefined]]

\* no Storage call sequence is being followed
NoTrail == [keys |-> <<>>, exact |-> FALSE]
\* no withRateLimitRetry call is in progress
IdleRetry == [pc |-> "idle"]
\* no history scan is in progress
IdleScan == [pc |-> "idle", known |-> <<>>]
\* no delivery is being debounced
IdleDeb == [pc |-> "idle"]
\* no comment delivery was handled
IdleKw == [pc |-> "idle"]
\* cycles are not followed in pairs
Untracked == [pc |-> "untracked"]
\* cycles are followed in pairs and none has finished since the process started
NoCycle == [pc |-> "none"]

StoreView(c, r, key) == IF Has(c, key) THEN r[StorageGet(c, key)] ELSE NoRec

Referenced(o, c, l) == (\E i \in 1..Len(c) : c[i].val = o) \/ (\E h \in Handlers : l[h].rec = o)

\* `const record: MessageRecord = {...}`: a fresh object
NewObj(c, l) == CHOOSE o \in Objs : ~Referenced(o, c, l) /\ \A p \in Objs : p < o => Referenced(p, c, l)

\* objects no longer reachable are dropped
Collect(r, c, l) == [o \in Objs |-> IF Referenced(o, c, l) THEN r[o] ELSE NoRec]

Call(op, ts, parent, text, ok) == [op |-> op, ts |-> ts, parent |-> parent, text |-> text, ok |-> ok]

Msg(text, parent, kind, num, cold) ==
  [text |-> text, blocks |-> <<>>, thread_ts |-> parent, origin |-> [kind |-> kind, num |-> num, cold |-> cold]]

Anchored(ms, key) == \E i \in 1..Len(ms) : Includes(getPlainTextFromMessage(ms[i]), markerFragment(key))

EngineInit(w, in, p) ==
  /\ cache = <<>>
  /\ maxEntries = in.cap
  /\ got = Undefined
  /\ recs = [o \in Objs |-> NoRec]
  /\ findCache = <<>>
  /\ findCacheSize = DefaultFindCacheSize
  /\ msgs = <<>>
  /\ loc = [h \in Handlers |-> IdleLoc]
  /\ gh = [h \in Handlers |-> IdleGh]
  /\ lastOk = [n \in AllPRs |-> NoState]
  /\ restarts = 0
  /\ workers = w
  /\ inputs = in
  /\ trail = NoTrail
  /\ retry = IdleRetry
  /\ scan = IdleScan
  /\ deb = IdleDeb
  /\ kw = IdleKw
  /\ prev = p

\* every comment event, and one event of each other handler registration
SomeKinds == IssueCommentKinds \cup ReviewCommentKinds \cup
             {[name |-> "pull_request", action |-> "synchronize"],
              [name |-> "pull_request_review", action |-> "submitted"],
              [name |-> "check_run", action |-> "completed"]}

Init == EngineInit(1, [prs |-> {1}, kinds |-> SomeKinds, variants |-> AllVariants, cap |-> 1,
                       restarts |-> MaxRestarts, outcomes |-> BOOLEAN], Untracked)

\* ------------------------------------------------- reconciliation engine
Active(l, g) == l[g].pc \notin {"idle", "done"}

\* outcomes of a post: the channel of the model holds at most MaxMsgs messages
PostOutcomes == IF Len(msgs) < MaxMsgs THEN inputs.outcomes ELSE {FALSE}

Finish(h, outcome, c2, r2, newCalls) ==
  [gh[h] EXCEPT !.calls = newCalls, !.outcome = outcome,
                !.settled = IF outcome = "ok" THEN "resolved" ELSE executeSyncCatch,
                !.after = StoreView(c2, r2, PrKey(loc[h].num))]

LastOkAfter(h, outcome, st) ==
  [lastOk EXCEPT ![loc[h].num] = IF outcome = "ok" /\ gh[h].solo THEN st ELSE NoState]

\* an error thrown inside the try block of executeSync
Abort(h, newCalls) ==
  /\ loc' = [loc EXCEPT ![h].pc = "done"]
  /\ gh' = [gh EXCEPT ![h] = Finish(h, "aborted", cache, recs, newCalls)]
  /\ lastOk' = LastOkAfter(h, "aborted", NoState)
  /\ UNCHANGED <<cache, maxEntries, got, recs, findCache, findCacheSize, msgs, restarts, workers, inputs, trail, retry, scan, deb, kw, prev>>

\* a finished handler returns before anything else is scheduled
NoneDone == \A g \in Handlers : loc[g].pc # "done"

\* the detail replies a summary's thread offers when a cycle starts
ThreadAtStart(ms, summary) ==
  [none |-> IF summary = Undefined THEN Undefined ELSE scanReplies(ms, summary, NoChecksText),
   breakdown |-> IF summary = Undefined THEN Undefined ELSE scanReplies(ms, summary, BreakdownHeader)]

\* a webhook handler calls scheduleSync -> executeSync, which issues fetchPullRequestState
Start(h, n, kind) ==
  /\ NoneDone
  /\ loc[h].pc = "idle"
  /\ \A g \in Handlers : g < h => loc[g].pc # "idle"
  /\ Cardinality({g \in Handlers : Active(loc, g)}) < workers
  /\ loc' = [loc EXCEPT ![h] = [IdleLoc EXCEPT !.pc = "fetch", !.num = n, !.kind = kind]]
  /\ gh' = [g \in Handlers |->
              IF g = h
              THEN [IdleGh EXCEPT !.solo = \A o \in Handlers \ {h} : ~(Active(loc, o) /\ loc[o].num = n),
                                  !.cold = ~Has(cache, PrKey(n)) /\ ~Anchored(msgs, PrKey(n)),
                                  !.pre = StoreView(cache, recs, PrKey(n)),
                                  !.sum0 = scanHistory(msgs, PrKey(n), DefaultMaxMessages),
                                  !.rep0 = ThreadAtStart(msgs, scanHistory(msgs, PrKey(n), DefaultMaxMessages))]
              ELSE IF Active(loc, g) /\ loc[g].num = n THEN [gh[g] EXCEPT !.solo = FALSE] ELSE gh[g]]
  /\ UNCHANGED <<cache, maxEntries, got, recs, findCache, findCacheSize, msgs, lastOk, restarts, workers, inputs, trail, retry, scan, deb, kw, prev>>

\* fetchPullRequestState settles; on success executeSync runs up to its next await
Fetch(h) ==
  /\ NoneDone
  /\ loc[h].pc = "fetch"
  /\ \/ FALSE \in inputs.outcomes /\ Abort(h, gh[h].calls)
     \/ \E st \in {AggState(loc[h].num, v) : v \in inputs.variants} :
          LET key == PrKey(loc[h].num)
              record == StorageGet(cache, key)
              m == buildMessages(st)
              sameMain == recs[record].last_main = m.main
              sameThread == recs[record].last_thread = m.thread
              force == Force(EventArg(loc[h].kind))
              cached == lookupKey(findCache, key)
              rep == lastOk[loc[h].num] = st /\ gh[h].solo
          IN IF record # Undefined
             THEN /\ loc' = [loc EXCEPT ![h].st = st, ![h].rec = record, ![h].sameMain = sameMain,
                                        ![h].sameThread = sameThread,
                                        ![h].pc = IF SkipUpdate(force, sameMain, sameThread) THEN "done"
                                                  ELSE IF UpdatesMain(force, sameMain) THEN "updM" ELSE "updT"]
                  /\ gh' = [gh EXCEPT ![h] =
                              IF SkipUpdate(force, sameMain, sameThread)
                              THEN [Finish(h, "ok", cache, recs, gh[h].calls) EXCEPT !.path = "bound", !.repeat = rep]
                              ELSE [gh[h] EXCEPT !.path = "bound", !.repeat = rep]]
                  /\ lastOk' = IF SkipUpdate(force, sameMain, sameThread) THEN LastOkAfter(h, "ok", st) ELSE lastOk
                  /\ UNCHANGED findCache
             ELSE /\ loc' = [loc EXCEPT ![h].st = st, ![h].foundTs = cached,
                                        ![h].pc = IF cached # Undefined THEN "replies" ELSE "hist"]
                  /\ gh' = [gh EXCEPT ![h].path = IF cached # Undefined THEN "recover" ELSE ""]
                  /\ findCache' = lookupRefresh(findCache, key)
                  /\ UNCHANGED lastOk
     /\ UNCHANGED <<cache, maxEntries, got, recs, findCacheSize, msgs, restarts, workers, inputs, trail, retry, scan, deb, kw, prev>>

\* findMessageByKey: the history scan settles (a failed scan is logged and reads as "not found")
History(h) ==
  /\ NoneDone
  /\ loc[h].pc = "hist"
  /\ \E ok \in inputs.outcomes :
       LET key == PrKey(loc[h].num)
           found == IF ok THEN scanHistory(msgs, key, DefaultMaxMessages) ELSE Undefined
       IN /\ loc' = [loc EXCEPT ![h].foundTs = found, ![h].pc = IF found # Undefined THEN "replies" ELSE "postM"]
          /\ gh' = [gh EXCEPT ![h].calls = Append(@, Call("history", Undefined, Undefined, NoText, ok)),
                              ![h].path = IF found # Undefined THEN "recover" ELSE "create"]
          /\ findCache' = IF found # Undefined THEN rememberKey(findCache, findCacheSize, key, found) ELSE findCache
  /\ UNCHANGED <<cache, maxEntries, got, recs, findCacheSize, msgs, lastOk, restarts, workers, inputs, trail, retry, scan, deb, kw, prev>>

\* recoverRecord: findReplyByMarker settles (a failed scan reads as "no reply")
Replies(h) ==
  /\ NoneDone
  /\ loc[h].pc = "replies"
  /\ \E ok \in inputs.outcomes :
       LET frag == searchFragment(buildMessages(loc[h].st).thread)
           t == IF ok THEN scanReplies(msgs, loc[h].foundTs, frag) ELSE Undefined
       IN /\ loc' = [loc EXCEPT ![h].threadTs = t, ![h].pc = IF t # Undefined THEN "recUpdT" ELSE "recPost"]
          /\ gh' = [gh EXCEPT ![h].calls = Append(@, Call("replies", loc[h].foundTs, Undefined, frag, ok)),
                              ![h].reuse = t # Undefined]
  /\ UNCHANGED <<cache, maxEntries, got, recs, findCache, findCacheSize, msgs, lastOk, restarts, workers, inputs, trail, retry, scan, deb, kw, prev>>

\* recoverRecord: the post of a fresh detail reply settles
RecPost(h) ==
  /\ NoneDone
  /\ loc[h].pc = "recPost"
  /\ \E ok \in PostOutcomes :
       LET thread == buildMessages(loc[h].st).thread
           ts == Len(msgs) + 1
       IN IF ok
          THEN /\ msgs' = Append(msgs, Msg(thread, recoverThreadParent(loc[h].foundTs), "detail", loc[h].num, gh[h].cold))
               /\ loc' = [loc EXCEPT ![h].threadTs = ts, ![h].pc = "recUpdM"]
               /\ gh' = [gh EXCEPT ![h].calls = Append(@, Call("post", ts, recoverThreadParent(loc[h].foundTs), thread, TRUE))]
               /\ UNCHANGED <<cache, maxEntries, got, recs, findCache, findCacheSize, lastOk, restarts, workers, inputs, trail, retry, scan, deb, kw, prev>>
          ELSE Abort(h, Append(gh[h].calls, Call("post", Undefined, recoverThreadParent(loc[h].foundTs), thread, FALSE)))

\* recoverRecord: the update of the existing detail reply settles
RecUpdT(h) ==
  /\ NoneDone
  /\ loc[h].pc = "recUpdT"
  /\ \E ok \in inputs.outcomes :
       LET thread == buildMessages(loc[h].st).thread
       IN IF ok
          THEN /\ msgs' = [msgs EXCEPT ![loc[h].threadTs].text = thread]
               /\ loc' = [loc EXCEPT ![h].pc = "recUpdM"]
               /\ gh' = [gh EXCEPT ![h].calls = Append(@, Call("update", loc[h].threadTs, Undefined, thread, TRUE))]
               /\ UNCHANGED <<cache, maxEntries, got, recs, findCache, findCacheSize, lastOk, restarts, workers, inputs, trail, retry, scan, deb, kw, prev>>
          ELSE Abort(h, Append(gh[h].calls, Call("update", loc[h].threadTs, Undefined, thread, FALSE)))

\* recoverRecord: the update of the summary settles; the record is built and stored
RecUpdM(h) ==
  /\ NoneDone
  /\ loc[h].pc = "recUpdM"
  /\ \E ok \in inputs.outcomes :
       LET m == buildMessages(loc[h].st)
           o == NewObj(cache, loc)
           record == [ts |-> loc[h].foundTs, thread_ts |-> loc[h].threadTs,
                      last_main |-> m.main, last_thread |-> m.thread]
       IN IF ok
          THEN /\ msgs' = [msgs EXCEPT ![loc[h].foundTs].text = m.main]
               /\ cache' = StorageSet(cache, maxEntries, PrKey(loc[h].num), o)
               /\ loc' = [loc EXCEPT ![h].rec = o, ![h].pc = "ret"]
               /\ recs' = Collect([recs EXCEPT ![o] = record], cache', loc')
               /\ gh' = [gh EXCEPT ![h].calls = Append(@, Call("update", loc[h].foundTs, Undefined, m.main, TRUE))]
               /\ UNCHANGED <<maxEntries, got, findCache, findCacheSize, lastOk, restarts, workers, inputs, trail, retry, scan, deb, kw, prev>>
          ELSE Abort(h, Append(gh[h].calls, Call("update", loc[h].foundTs, Undefined, m.main, FALSE)))

\* createRecord: the post of the summary settles
PostM(h) ==
  /\ NoneDone
  /\ loc[h].pc = "postM"
  /\ \E ok \in PostOutcomes :
       LET main == buildMessages(loc[h].st).main
           ts == Len(msgs) + 1
       IN IF ok
          THEN /\ msgs' = Append(msgs, Msg(main, Undefined, "summary", loc[h].num, gh[h].cold))
               /\ loc' = [loc EXCEPT ![h].mainTs = ts, ![h].pc = "postT"]
               /\ gh' = [gh EXCEPT ![h].calls = Append(@, Call("post", ts, Undefined, main, TRUE))]
               /\ UNCHANGED <<cache, maxEntries, got, recs, findCache, findCacheSize, lastOk, restarts, workers, inputs, trail, retry, scan, deb, kw, prev>>
          ELSE Abort(h, Append(gh[h].calls, Call("post", Undefined, Undefined, main, FALSE)))

\* createRecord: the post of the detail settles; the record is built
PostT(h) ==
  /\ NoneDone
  /\ loc[h].pc = "postT"
  /\ \E ok \in PostOutcomes :
       LET m == buildMessages(loc[h].st)
           parent == createThreadParent(loc[h].mainTs)
           ts == Len(msgs) + 1
           o == NewObj(cache, loc)
           record == [ts |-> loc[h].mainTs, thread_ts |-> ts, last_main |-> m.main, last_thread |-> m.thread]
       IN IF ok
          THEN /\ msgs' = Append(msgs, Msg(m.thread, parent, "detail", loc[h].num, gh[h].cold))
               /\ loc' = [loc EXCEPT ![h].threadTs = ts, ![h].rec = o, ![h].pc = "ret"]
               /\ recs' = [recs EXCEPT ![o] = record]
               /\ gh' = [gh EXCEPT ![h].calls = Append(@, Call("post", ts, parent, m.thread, TRUE))]
               /\ UNCHANGED <<cache, maxEntries, got, findCache, findCacheSize, lastOk, restarts, workers, inputs, trail, retry, scan, deb, kw, prev>>
          ELSE Abort(h, Append(gh[h].calls, Call("post", Undefined, parent, m.thread, FALSE)))

\* executeSync resumes with the record of recoverRecord / createRecord: storage.set(key, record)
Ret(h) ==
  /\ NoneDone
  /\ loc[h].pc = "ret"
  /\ cache' = StorageSet(cache, maxEntries, PrKey(loc[h].num), loc[h].rec)
  /\ loc' = [loc EXCEPT ![h].pc = "done"]
  /\ recs' = Collect(recs, cache', loc')
  /\ gh' = [gh EXCEPT ![h] = Finish(h, "ok", cache', recs', gh[h].calls)]
  /\ lastOk' = LastOkAfter(h, "ok", loc[h].st)
  /\ UNCHANGED <<maxEntries, got, findCache, findCacheSize, msgs, restarts, workers, inputs, trail, retry, scan, deb, kw, prev>>

\* updateRecord: the update of the summary settles
UpdM(h) ==
  /\ NoneDone
  /\ loc[h].pc = "updM"
  /\ \E ok \in inputs.outcomes :
       LET m == buildMessages(loc[h].st)
           record == recs[loc[h].rec]
           force == Force(EventArg(loc[h].kind))
           more == UpdatesThread(force, loc[h].sameThread)
           newCalls == Append(gh[h].calls, Call("update", record.ts, Undefined, m.main, ok))
       IN IF ok
          THEN /\ msgs' = [msgs EXCEPT ![record.ts].text = m.main]
               /\ recs' = [recs EXCEPT ![loc[h].rec].last_main = m.main]
               /\ loc' = [loc EXCEPT ![h].pc = IF more THEN "updT" ELSE "done"]
               /\ gh' = [gh EXCEPT ![h] = IF more THEN [gh[h] EXCEPT !.calls = newCalls]
                                          ELSE Finish(h, "ok", cache, recs', newCalls)]
               /\ lastOk' = IF more THEN lastOk ELSE LastOkAfter(h, "ok", loc[h].st)
               /\ UNCHANGED <<cache, maxEntries, got, findCache, findCacheSize, restarts, workers, inputs, trail, retry, scan, deb, kw, prev>>
          ELSE Abort(h, newCalls)

\* updateRecord: the update of the detail settles
UpdT(h) ==
  /\ NoneDone
  /\ loc[h].pc = "updT"
  /\ \E ok \in inputs.outcomes :
       LET m == buildMessages(loc[h].st)
           record == recs[loc[h].rec]
           newCalls == Append(gh[h].calls, Call("update", record.thread_ts, Undefined, m.thread, ok))
       IN IF ok
          THEN /\ msgs' = [msgs EXCEPT ![record.thread_ts].text = m.thread]
               /\ recs' = [recs EXCEPT ![loc[h].rec].last_thread = m.thread]
               /\ loc' = [loc EXCEPT ![h].pc = "done"]
               /\ gh' = [gh EXCEPT ![h] = Finish(h, "ok", cache, recs', newCalls)]
               /\ lastOk' = LastOkAfter(h, "ok", loc[h].st)
               /\ UNCHANGED <<cache, maxEntries, got, findCache, findCacheSize, restarts, workers, inputs, trail, retry, scan, deb, kw, prev>>
          ELSE Abort(h, newCalls)

\* what a finished cycle leaves for the cycle after it: its key, how it ended, the call that
\* failed (if one did) and the messages it posted
CycleOf(h) ==
  LET c == gh[h].calls
      bad == {i \in 1..Len(c) : ~c[i].ok}
  IN [pc |-> "cycle", num |-> loc[h].num, outcome |-> gh[h].outcome,
      failed |-> IF bad = {} THEN "" ELSE c[CHOOSE i \in bad : TRUE].op,
      posted |-> {c[i].ts : i \in {j \in 1..Len(c) : c[j].op = "post" /\ c[j].ok}}]

\* the handler returns; its slot is free for the next delivery
Reset(h) ==
  /\ loc[h].pc = "done"
  /\ loc' = [loc EXCEPT ![h] = IdleLoc]
  /\ gh' = [gh EXCEPT ![h] = IdleGh]
  /\ recs' = Collect(recs, cache, loc')
  /\ prev' = IF prev = Untracked THEN prev ELSE CycleOf(h)
  /\ UNCHANGED <<cache, maxEntries, got, findCache, findCacheSize, msgs, lastOk, restarts, workers, inputs, trail, retry, scan, deb, kw>>

\* the process restarts: Storage and SlackClient are constructed anew, the channel persists
Restart ==
  /\ restarts < inputs.restarts
  /\ restarts' = restarts + 1
  /\ cache' = <<>>
  /\ findCache' = <<>>
  /\ recs' = [o \in Objs |-> NoRec]
  /\ loc' = [h \in Handlers |-> IdleLoc]
  /\ gh' = [h \in Handlers |-> IdleGh]
  /\ lastOk' = [n \in AllPRs |-> NoState]
  /\ prev' = IF prev = Untracked THEN prev ELSE NoCycle
  /\ UNCHANGED <<maxEntries, got, findCacheSize, msgs, workers, inputs, trail, retry, scan, deb, kw>>

Next ==
  \/ \E h \in Handlers, n \in inputs.prs, kind \in inputs.kinds : Start(h, n, kind)
  \/ \E h \in Handlers : Fetch(h)
  \/ \E h \in Handlers : History(h)
  \/ \E h \in Handlers : Replies(h)
  \/ \E h \in Handlers : RecPost(h)
  \/ \E h \in Handlers : RecUpdT(h)
  \/ \E h \in Handlers : RecUpdM(h)
  \/ \E h \in Handlers : PostM(h)
  \/ \E h \in Handlers : PostT(h)
  \/ \E h \in Handlers : Ret(h)
  \/ \E h \in Handlers : UpdM(h)
  \/ \E h \in Handlers : UpdT(h)
  \/ \E h \in Handlers : Reset(h)
  \/ Restart

\* one executeSync call at a time
Spec == Init /\ [][Next]_vars

\* the handlers of one process overlap: every await is a point where another handler runs
RaceInit == EngineInit(NumHandlers, [prs |-> {1}, kinds |-> {[name |-> "pull_request", action |-> "synchronize"]},
                                      variants |-> {Variant(NoReviewers, NoChecks), Variant(NoReviewers, CiPending)},
                                      cap |-> 1, restarts |-> 1, outcomes |-> {TRUE}], Untracked)

SpecRace == RaceInit /\ [][Next]_vars

\* consecutive cycles of one pull request, followed in pairs
AgainInit == EngineInit(1, [prs |-> {1}, kinds |-> {[name |-> "pull_request", action |-> "synchronize"]},
                            variants |-> {Variant(NoReviewers, NoChecks), Variant(NoReviewers, CiPending)},
                            cap |-> 1, restarts |-> 1, outcomes |-> BOOLEAN], NoCycle)

SpecAgain == AgainInit /\ [][Next]_vars

\* ------------------------------------------------ the store on its own
StoreKeys == {<<>>, <<"a">>, <<"b">>, <<"c">>}
StoreVals == {1, 2}

StoreInit ==
  /\ cache = <<>>
  /\ maxEntries \in 0..MaxCap
  /\ got = Undefined
  /\ recs = [o \in Objs |-> NoRec]
  /\ findCache = <<>>
  /\ findCacheSize = DefaultFindCacheSize
  /\ msgs = <<>>
  /\ loc = [h \in Handlers |-> IdleLoc]
  /\ gh = [h \in Handlers |-> IdleGh]
  /\ lastOk = [n \in AllPRs |-> NoState]
  /\ restarts = 0
  /\ workers = 1
  /\ inputs = [prs |-> {}, kinds |-> {}, variants |-> {}, cap |-> 0, restarts |-> 0, outcomes |-> {}]
  /\ trail = [keys |-> <<>>, exact |-> TRUE]
  /\ retry = IdleRetry
  /\ scan = IdleScan
  /\ deb = IdleDeb
  /\ kw = IdleKw
  /\ prev = Untracked

\* the keys set so far, as long as they are at most MaxTrail and nothing was deleted
TrailAfterSet(t, k) ==
  IF t.exact /\ Len(t.keys) < MaxTrail THEN [keys |-> Append(t.keys, k), exact |-> TRUE] ELSE NoTrail

StoreSet(k, v) ==
  /\ cache' = StorageSet(cache, maxEntries, k, v)
  /\ trail' = TrailAfterSet(trail, k)
  /\ UNCHANGED <<maxEntries, got, recs, findCache, findCacheSize, msgs, loc, gh, lastOk, restarts, workers, inputs, retry, scan, deb, kw, prev>>

StoreGet(k) ==
  /\ got' = StorageGet(cache, k)
  /\ UNCHANGED <<cache, maxEntries, recs, findCache, findCacheSize, msgs, loc, gh, lastOk, restarts, workers, inputs, trail, retry, scan, deb, kw, prev>>

StoreDelete(k) ==
  /\ cache' = StorageDelete(cache, k)
  /\ trail' = NoTrail
  /\ UNCHANGED <<maxEntries, got, recs, findCache, findCacheSize, msgs, loc, gh, lastOk, restarts, workers, inputs, retry, scan, deb, kw, prev>>

StoreNext ==
  \/ \E k \in StoreKeys, v \in StoreVals : StoreSet(k, v)
  \/ \E k \in StoreKeys : StoreGet(k)
  \/ \E k \in StoreKeys : StoreDelete(k)

SpecStore == StoreInit /\ [][StoreNext]_vars

\* ------------------------------------------- withRateLimitRetry on its own
Digits == {"0", "1", "2", "3", "4", "5", "6", "7", "8", "9"}
DigitVal(ch) == CHOOSE d \in 0..9 : DigitStr(d) = ch

\* the longest prefix of decimal digits of a string of characters
RECURSIVE LeadingDigits(_)
LeadingDigits(chars) ==
  IF chars = <<>> \/ chars[1] \notin Digits THEN <<>> ELSE <<chars[1]>> \o LeadingDigits(Tail(chars))

RECURSIVE DigitsValue(_)
DigitsValue(ds) == IF ds = <<>> THEN 0 ELSE 10 * DigitsValue(SubSeq(ds, 1, Len(ds) - 1)) + DigitVal(ds[Len(ds)])

\* parseInt(x, 10) of undefined or of an unsigned string of characters
parseInt(x) ==
  IF x.t = "string" /\ LeadingDigits(x.s) # <<>> THEN JsNum(DigitsValue(LeadingDigits(x.s))) ELSE JsNaN

\* ErrorCode.RateLimitedError and another error code of the SDK
RateLimitedError == "slack_webapi_rate_limited_error"
PlatformError == "slack_webapi_platform_error"

\* err?.code === ErrorCode.RateLimitedError || err?.data?.error === "ratelimited"
IsRateLimitedAny(err) == TRUE

isRateLimited(err) == err.code = RateLimitedError \/ err.dataError = "ratelimited"

\* a cap that lets one more attempt be followed by a retry
RetryCapFour == 3 + 1

\* the number of attempts that may be followed by a retry
RetryCap == 3

\* the condition of the retry branch
RetryNever(err, attempt) == FALSE

RetryAllowed(err, attempt) == isRateLimited(err) /\ attempt <= RetryCap

\* err?.data?.retryAfter ?? err?.retryAfter ?? parseInt(err?.headers?.["retry-after"], 10)
retryAfterSec(err) == Coalesce(err.dataRetryAfter, Coalesce(err.retryAfter, parseInt(err.header)))

\* (retryAfterSec && !Number.isNaN(retryAfterSec) ? retryAfterSec : 1) * 1000
waitMs(err) ==
  LET r == retryAfterSec(err)
  IN (IF JsTruthy(r) /\ ~NumberIsNaN(r) THEN r.v ELSE 1) * 1000

\* the errors an operation is made to throw
DelayValues == {JsUndefined, JsNaN, JsNum(0), JsNum(2)}
HeaderValues == {JsUndefined, JsStr(<<"0">>), JsStr(<<"1", "2">>), JsStr(<<"x">>)}
Errors == [code : {RateLimitedError, PlatformError}, dataError : {"ratelimited", "channel_not_found"},
           dataRetryAfter : DelayValues, retryAfter : DelayValues, header : HeaderValues]
NoError == [code |-> "", dataError |-> "", dataRetryAfter |-> JsUndefined, retryAfter |-> JsUndefined,
            header |-> JsUndefined]

\* log: what each invocation of op did ("ok", "ratelimited", "error"); result: the attempt whose
\* value is returned; thrown: the error surfaced to the caller
RetryState(pc, attempt, err, wait, log, sleeps, result, thrown) ==
  [pc |-> pc, attempt |-> attempt, err |-> err, wait |-> wait, log |-> log, sleeps |-> sleeps,
   result |-> result, thrown |-> thrown]

RetryInit ==
  /\ cache = <<>>
  /\ maxEntries = 0
  /\ got = Undefined
  /\ recs = [o \in Objs |-> NoRec]
  /\ findCache = <<>>
  /\ findCacheSize = DefaultFindCacheSize
  /\ msgs = <<>>
  /\ loc = [h \in Handlers |-> IdleLoc]
  /\ gh = [h \in Handlers |-> IdleGh]
  /\ lastOk = [n \in AllPRs |-> NoState]
  /\ restarts = 0
  /\ workers = 1
  /\ inputs = [prs |-> {}, kinds |-> {}, variants |-> {}, cap |-> 0, restarts |-> 0, outcomes |-> {}]
  /\ trail = NoTrail
  /\ retry = IdleRetry
  /\ scan = IdleScan
  /\ deb = IdleDeb
  /\ kw = IdleKw
  /\ prev = Untracked

RetryUnchanged ==
  UNCHANGED <<cache, maxEntries, got, recs, findCache, findCacheSize, msgs, loc, gh, lastOk, restarts,
              workers, inputs, trail, scan, deb, kw, prev>>

\* withRateLimitRetry(op) is called, for the first time or after an earlier call has ended
RetryCall ==
  /\ retry.pc \in {"idle", "returned", "thrown"}
  /\ retry' = RetryState("op", 1, NoError, 0, <<>>, <<>>, 0, NoError)
  /\ RetryUnchanged

\* `return await op()`: op resolves
RetryOpOk ==
  /\ retry.pc = "op"
  /\ retry' = [retry EXCEPT !.pc = "returned", !.log = Append(@, "ok"), !.result = retry.attempt]
  /\ RetryUnchanged

\* op rejects with err
RetryOpThrows(err) ==
  /\ retry.pc = "op"
  /\ retry' = [retry EXCEPT !.pc = "caught", !.err = err,
                            !.log = Append(@, IF isRateLimited(err) THEN "ratelimited" ELSE "error")]
  /\ RetryUnchanged

\* the catch block, up to the sleep or the rethrow
RetryCatch ==
  /\ retry.pc = "caught"
  /\ retry' = IF RetryAllowed(retry.err, retry.attempt)
              THEN [retry EXCEPT !.pc = "sleep", !.wait = waitMs(retry.err)]
              ELSE [retry EXCEPT !.pc = "thrown", !.thrown = retry.err]
  /\ RetryUnchanged

\* `await sleep(waitMs)` ends and the wrapper calls itself with attempt + 1
RetrySleep ==
  /\ retry.pc = "sleep"
  /\ retry' = [retry EXCEPT !.pc = "op", !.attempt = @ + 1, !.sleeps = Append(@, retry.wait)]
  /\ RetryUnchanged

RetryNext ==
  \/ RetryCall
  \/ RetryOpOk
  \/ \E err \in Errors : RetryOpThrows(err)
  \/ RetryCatch
  \/ RetrySleep

SpecRetry == RetryInit /\ [][RetryNext]_vars

\* ----------------------------------- history scans of the client on their own
\* The channel is `msgs`: messages in posting order, ts = index, replies carry thread_ts.
Hello == <<"hello">>
\* a text that carries the hidden marker of pull request n
AnchorText(n) == <<"PR update ">> \o Marker(PrKey(n))
Block(text, fields, elements) == [text |-> text, fields |-> fields, elements |-> elements]

\* the contents a top-level message of the explored channels can have: [text, blocks]
TopShapes(n) ==
  { [text |-> Hello, blocks |-> <<>>],
    [text |-> AnchorText(n), blocks |-> <<>>],
    [text |-> <<>>, blocks |-> <<Block(JsObj(JsStr(AnchorText(n))), <<>>, <<>>)>>],
    [text |-> Hello, blocks |-> <<Block(JsStr(Hello), <<>>, <<>>), Block(JsStr(AnchorText(n)), <<>>, <<>>)>>],
    [text |-> <<>>, blocks |-> <<Block(JsUndefined, <<JsUndefined, JsStr(Hello), JsObj(JsStr(AnchorText(n)))>>, <<>>)>>],
    [text |-> Hello, blocks |-> <<Block(JsObj(JsUndefined), <<>>, <<JsStr(<<>>), JsObj(JsStr(AnchorText(n)))>>)>>] }

ReplyShapes(n) == { [text |-> Hello, blocks |-> <<>>], [text |-> AnchorText(n), blocks |-> <<>>] }

ScanMsg(shape, parent) ==
  [Msg(shape.text, parent, "none", 0, FALSE) EXCEPT !.blocks = shape.blocks]

TopLevel(ms) == {i \in 1..Len(ms) : ms[i].thread_ts = Undefined}

\* the channels of at most `len` messages, each message top-level or a reply to an earlier one
RECURSIVE Channels(_)
Channels(len) ==
  IF len = 0 THEN {<<>>}
  ELSE LET shorter == Channels(len - 1)
           full == {ms \in shorter : Len(ms) = len - 1}
       IN shorter
          \cup {Append(ms, ScanMsg(sh, Undefined)) : ms \in full, sh \in TopShapes(1)}
          \cup UNION {{Append(ms, ScanMsg(sh, par)) : sh \in ReplyShapes(1), par \in TopLevel(ms)} : ms \in full}

\* message.reply_count as conversations.history reports it
ReplyCount(ms, ts) == Cardinality({i \in 1..Len(ms) : ms[i].thread_ts = ts})

ScanKeys == {PrKey(1)}
ScanBudgets == {0, 1, 2, DefaultMaxMessages}
ScanFragments == {markerFragment(PrKey(1)), Hello}

\* op: which method runs; next: how many top-level messages the server has handed out;
\* scanned, markerLimit, page, hasMore, nextCursor: locals of iterateHistory (page holds the
\* messages of the current response not yet yielded); parent: the message whose thread is
\* being fetched; limits, examined, threads: the page limits requested (each with the value of
\* scanned when it was requested), the messages whose
\* text was tested and the threads fetched, in order; hit: the message or reply that matched;
\* known: per key, the identifier the latest findMessageByKey call that found one returned
ScanState(pc, op, key, maxMessages, includeThread) ==
  [pc |-> pc, op |-> op, key |-> key, maxMessages |-> maxMessages, includeThread |-> includeThread,
   markerLimit |-> Max(1, maxMessages), next |-> 0, scanned |-> 0, page |-> <<>>, hasMore |-> FALSE,
   nextCursor |-> FALSE, parent |-> Undefined, fragment |-> <<>>, limits |-> <<>>, examined |-> <<>>,
   threads |-> <<>>, cached |-> FALSE, failed |-> FALSE, hit |-> Undefined, result |-> Undefined,
   known |-> scan.known]

ScanInit ==
  /\ cache = <<>>
  /\ maxEntries = 0
  /\ got = Undefined
  /\ recs = [o \in Objs |-> NoRec]
  /\ findCache = <<>>
  /\ findCacheSize = DefaultFindCacheSize
  /\ msgs \in Channels(MaxHist)
  /\ loc = [h \in Handlers |-> IdleLoc]
  /\ gh = [h \in Handlers |-> IdleGh]
  /\ lastOk = [n \in AllPRs |-> NoState]
  /\ restarts = 0
  /\ workers = 1
  /\ inputs = [prs |-> {}, kinds |-> {}, variants |-> {}, cap |-> 0, restarts |-> 0, outcomes |-> {}]
  /\ trail = NoTrail
  /\ retry = IdleRetry
  /\ scan = IdleScan
  /\ deb = IdleDeb
  /\ kw = IdleKw
  /\ prev = Untracked

ScanUnchanged ==
  UNCHANGED <<cache, maxEntries, got, recs, findCacheSize, msgs, loc, gh, lastOk, restarts, workers,
              inputs, trail, retry, deb, kw, prev>>

ScanOver == scan.pc \in {"idle", "done"}

\* findMessageByKey is called: the cache lookup, and on a miss the scan begins
FindCall(key, maxMessages, includeThread) ==
  /\ ScanOver
  /\ LET st == ScanState("fetch", "findMessageByKey", key, maxMessages, includeThread)
         cached == lookupKey(findCache, key)
     IN IF cached # Undefined
        THEN /\ scan' = [st EXCEPT !.pc = "done", !.cached = TRUE, !.result = cached]
             /\ findCache' = lookupRefresh(findCache, key)
        ELSE /\ scan' = st
             /\ UNCHANGED findCache
  /\ ScanUnchanged

\* `const limit = Math.min(pageSize, remaining)`
PageLimitFull(markerLimit, scanned) == PageSize

PageLimit(markerLimit, scanned) == Min(PageSize, markerLimit - scanned)

\* what iterateHistory does once the messages of a response are used up
AfterPage(st) ==
  IF ~st.hasMore \/ ~st.nextCursor THEN [st EXCEPT !.pc = "done"]
  ELSE IF st.scanned < st.markerLimit THEN [st EXCEPT !.pc = "fetch"]
  ELSE [st EXCEPT !.pc = "done"]

\* what iterateHistory does when the consumer asks for the message after a yield
AfterYield(st) ==
  IF st.scanned >= st.markerLimit THEN [st EXCEPT !.pc = "done", !.page = <<>>]
  ELSE IF st.page = <<>> THEN AfterPage(st)
  ELSE [st EXCEPT !.pc = "iter"]

\* `return message.ts` inside the for-await loop: the generator is closed, the scan is over
OnMatchKeepScanning(st, ts) == AfterYield([st EXCEPT !.hit = ts, !.result = ts])

OnMatch(st, ts) == [st EXCEPT !.pc = "done", !.hit = ts, !.result = ts, !.known = MapSet(@, st.key, ts)]

\* what findMessageByKey returns for a match inside a thread: `return message.ts`
ThreadHitReply(parentTs, replyTs) == replyTs

ThreadHit(parentTs, replyTs) == parentTs

\* conversations.history answers with the next k top-level messages, newest first
FindPage(k, hasMore, nextCursor) ==
  /\ scan.pc = "fetch"
  /\ Len(scan.limits) < MaxFetches
  /\ LET all == TopLevelNewestFirst(msgs)
         limit == PageLimit(scan.markerLimit, scan.scanned)
         upto == Min(Len(all), scan.next + k)
         st == [scan EXCEPT !.limits = Append(@, [limit |-> limit, scanned |-> scan.scanned]), !.page = SubSeq(all, scan.next + 1, upto),
                            !.next = upto, !.hasMore = hasMore, !.nextCursor = nextCursor]
     IN scan' = IF st.page = <<>> THEN AfterPage(st) ELSE [st EXCEPT !.pc = "iter"]
  /\ UNCHANGED findCache
  /\ ScanUnchanged

\* the history request fails (rejects, or answers ok: false): caught in findMessageByKey
FindPageFails ==
  /\ scan.pc = "fetch"
  /\ scan' = [scan EXCEPT !.pc = "done", !.failed = TRUE, !.limits = Append(@, [limit |-> PageLimit(scan.markerLimit, scan.scanned), scanned |-> scan.scanned])]
  /\ UNCHANGED findCache
  /\ ScanUnchanged

\* the loop body of findMessageByKey for the next yielded message
FindExamine ==
  /\ scan.pc = "iter"
  /\ LET ts == Head(scan.page)
         st == [scan EXCEPT !.page = Tail(@), !.scanned = @ + 1, !.examined = Append(@, ts)]
     IN IF Includes(getPlainTextFromMessage(msgs[ts]), markerFragment(scan.key))
        THEN /\ scan' = OnMatch(st, ts)
             /\ findCache' = rememberKey(findCache, findCacheSize, scan.key, ts)
        ELSE /\ scan' = IF scan.includeThread /\ ReplyCount(msgs, ts) > 0
                        THEN [st EXCEPT !.pc = "thread", !.parent = ts]
                        ELSE AfterYield(st)
             /\ UNCHANGED findCache
  /\ ScanUnchanged

\* conversations.replies answers for the parent: the inner loop of findMessageByKey
FindThread ==
  /\ scan.pc = "thread"
  /\ LET reply == scanReplies(msgs, scan.parent, markerFragment(scan.key))
         st == [scan EXCEPT !.threads = Append(@, scan.parent), !.parent = Undefined]
     IN IF reply # Undefined
        THEN /\ scan' = [st EXCEPT !.pc = "done", !.hit = reply, !.result = ThreadHit(scan.parent, reply),
                                   !.known = MapSet(@, scan.key, ThreadHit(scan.parent, reply))]
             /\ findCache' = rememberKey(findCache, findCacheSize, scan.key, scan.parent)
        ELSE /\ scan' = AfterYield(st)
             /\ UNCHANGED findCache
  /\ ScanUnchanged

\* the replies request fails: caught in findMessageByKey
FindThreadFails ==
  /\ scan.pc = "thread"
  /\ scan' = [scan EXCEPT !.pc = "done", !.failed = TRUE, !.threads = Append(@, scan.parent), !.parent = Undefined]
  /\ UNCHANGED findCache
  /\ ScanUnchanged

\* findReplyByMarker(channel, parentTs, fragment): one replies request, then the loop
FindReply(parentTs, fragment, ok) ==
  /\ ScanOver
  /\ parentTs \in TopLevel(msgs)
  /\ LET st == [ScanState("done", "findReplyByMarker", <<>>, 0, FALSE) EXCEPT
                  !.parent = parentTs, !.fragment = fragment, !.threads = <<parentTs>>]
         reply == scanReplies(msgs, parentTs, fragment)
     IN scan' = IF ok THEN [st EXCEPT !.hit = reply, !.result = reply] ELSE [st EXCEPT !.failed = TRUE]
  /\ UNCHANGED findCache
  /\ ScanUnchanged

ScanNext ==
  \/ \E key \in ScanKeys, maxMessages \in ScanBudgets, includeThread \in BOOLEAN :
       FindCall(key, maxMessages, includeThread)
  \/ \E k \in 0..MaxPage, hasMore \in BOOLEAN, nextCursor \in BOOLEAN : FindPage(k, hasMore, nextCursor)
  \/ FindPageFails
  \/ FindExamine
  \/ FindThread
  \/ FindThreadFails
  \/ \E parentTs \in 1..MaxHist, fragment \in ScanFragments, ok \in BOOLEAN : FindReply(parentTs, fragment, ok)

SpecScan == ScanInit /\ [][ScanNext]_vars

\* ------------------------------------------ the lookup cache across calls
\* The channel holds summaries the bot posted for several pull requests.
CachePRs == {1, 2, 12}
Summary(n) == Msg(buildMainMessage(AggState(n, Variant(NoReviewers, NoChecks)), UserMap), Undefined, "summary", n, TRUE)

\* the channels of at most `len` summaries, one per pull request at most
RECURSIVE SummaryChannels(_)
SummaryChannels(len) ==
  IF len = 0 THEN {<<>>}
  ELSE LET shorter == SummaryChannels(len - 1)
       IN shorter \cup {Append(ms, Summary(n)) : ms \in {c \in shorter : Len(c) = len - 1},
                                                n \in CachePRs}

NoRepeat(ms) == \A i, j \in 1..Len(ms) : i # j => ms[i] # ms[j]

CacheKeys == {<<>>} \cup {PrKey(n) : n \in CachePRs}

CacheInit ==
  /\ cache = <<>>
  /\ maxEntries = 0
  /\ got = Undefined
  /\ recs = [o \in Objs |-> NoRec]
  /\ findCache = <<>>
  /\ findCacheSize \in 0..MaxFindCache
  /\ msgs \in {ms \in SummaryChannels(MaxSummaries) : NoRepeat(ms)}
  /\ loc = [h \in Handlers |-> IdleLoc]
  /\ gh = [h \in Handlers |-> IdleGh]
  /\ lastOk = [n \in AllPRs |-> NoState]
  /\ restarts = 0
  /\ workers = 1
  /\ inputs = [prs |-> {}, kinds |-> {}, variants |-> {}, cap |-> 0, restarts |-> 0, outcomes |-> {}]
  /\ trail = NoTrail
  /\ retry = IdleRetry
  /\ scan = IdleScan
  /\ deb = IdleDeb
  /\ kw = IdleKw
  /\ prev = Untracked

\* calls of findMessageByKey(channel, key) one after the other on one client
CacheNext ==
  \/ \E key \in CacheKeys : FindCall(key, DefaultMaxMessages, FALSE)
  \/ \E k \in 1..MaxPage, hasMore \in BOOLEAN, nextCursor \in BOOLEAN : FindPage(k, hasMore, nextCursor)
  \/ FindPageFails
  \/ FindExamine

SpecCache == CacheInit /\ [][CacheNext]_vars

\* ------------------------------------ scheduleSync with a debounce window
\* The index.ts revision that reads DEBOUNCE_MS.  Time is a clock of ticks; a Node timer runs
\* its callback once it is due, before the clock moves on.
DebPRs == {1, 12}
Shas == {"sha1", "sha2"}
NoTimer == 0
NoArgs == [prNumber |-> 0, headSha |-> ""]

\* a window test that lets 0 through to the timer branch
ImmediateNegativeOnly(debounceMs) == debounceMs < 0

\* `if (debounceMs <= 0) return executeSync(...)`
Immediate(debounceMs) == debounceMs <= 0

\* a schedule that leaves the earlier timer armed
KeepExisting(timers, existing) == timers

\* `const existing = pendingTimers.get(key); if (existing) clearTimeout(existing)`
ClearExisting(timers, existing) ==
  IF existing # NoTimer THEN {t \in timers : t.id # existing} ELSE timers

DebState(debounceMs) ==
  [pc |-> "on", debounceMs |-> debounceMs, now |-> 0, timers |-> {},
   pendingTimers |-> [n \in DebPRs |-> NoTimer], latestArgs |-> [n \in DebPRs |-> NoArgs],
   arrivals |-> <<>>, runs |-> <<>>]

DebInit ==
  /\ cache = <<>>
  /\ maxEntries = MaxCap
  /\ got = Undefined
  /\ recs = [o \in Objs |-> NoRec]
  /\ findCache = <<>>
  /\ findCacheSize = DefaultFindCacheSize
  /\ msgs = <<>>
  /\ loc = [h \in Handlers |-> IdleLoc]
  /\ gh = [h \in Handlers |-> IdleGh]
  /\ lastOk = [n \in AllPRs |-> NoState]
  /\ restarts = 0
  /\ workers = 1
  /\ inputs = [prs |-> {}, kinds |-> {}, variants |-> {}, cap |-> 0, restarts |-> 0, outcomes |-> {}]
  /\ trail = NoTrail
  /\ retry = IdleRetry
  /\ scan = IdleScan
  /\ deb \in {DebState(debounceMs) : debounceMs \in 0..MaxWindow}
  /\ kw = IdleKw
  /\ prev = Untracked

DebUnchanged ==
  UNCHANGED <<cache, maxEntries, got, recs, findCache, findCacheSize, msgs, loc, gh, lastOk, restarts,
              workers, inputs, trail, retry, scan, kw, prev>>

\* a call of executeSync: its arguments, when it started, how many deliveries had arrived, and
\* the delivery whose handler holds its promise (0 when a timer callback made the call)
Run(args, at, upto, by) == [args |-> args, at |-> at, upto |-> upto, by |-> by, done |-> FALSE]

\* a handler calls scheduleSync(octokit, owner, repo, prNumber, headSha, event)
scheduleSync(prNumber, headSha) ==
  LET id == Len(deb.arrivals) + 1
      args == [prNumber |-> prNumber, headSha |-> headSha]
      arrival == [args |-> args, at |-> deb.now, settled |-> ~Immediate(deb.debounceMs)]
  IN /\ deb.pc = "on"
     /\ Len(deb.arrivals) < MaxArrivals
     /\ deb' = IF Immediate(deb.debounceMs)
               THEN [deb EXCEPT !.latestArgs[prNumber] = args,
                                !.arrivals = Append(@, arrival),
                                !.runs = Append(@, Run(args, deb.now, id, id))]
               ELSE [deb EXCEPT !.latestArgs[prNumber] = args,
                                !.timers = ClearExisting(@, deb.pendingTimers[prNumber])
                                             \cup {[id |-> id, key |-> prNumber, due |-> deb.now + deb.debounceMs]},
                                !.pendingTimers[prNumber] = id,
                                !.arrivals = Append(@, arrival)]
     /\ DebUnchanged

\* the setTimeout callback: pendingTimers.delete(key); executeSync(latestArgs.get(key))
TimerFires ==
  /\ deb.pc = "on"
  /\ \E t \in deb.timers :
       /\ t.due <= deb.now
       /\ deb' = [deb EXCEPT !.timers = @ \ {t},
                             !.pendingTimers[t.key] = NoTimer,
                             !.runs = Append(@, Run(deb.latestArgs[t.key], deb.now, Len(deb.arrivals), 0))]
  /\ DebUnchanged

\* an executeSync call completes; the promise a handler got from the immediate branch settles
SyncFinishes ==
  /\ deb.pc = "on"
  /\ \E r \in 1..Len(deb.runs) :
       /\ ~deb.runs[r].done
       /\ deb' = [deb EXCEPT !.runs[r].done = TRUE,
                             !.arrivals = IF deb.runs[r].by = 0 THEN @
                                          ELSE [@ EXCEPT ![deb.runs[r].by].settled = TRUE]]
  /\ DebUnchanged

\* the clock advances when no timer is due
Tick ==
  /\ deb.pc = "on"
  /\ deb.now < MaxTime
  /\ \A t \in deb.timers : t.due > deb.now
  /\ deb' = [deb EXCEPT !.now = @ + 1]
  /\ DebUnchanged

DebNext ==
  \/ \E prNumber \in DebPRs, headSha \in Shas : scheduleSync(prNumber, headSha)
  \/ TimerFires
  \/ SyncFinishes
  \/ Tick

SpecDebounce == DebInit /\ [][DebNext]_vars

\* ------------------------------- the comment handlers and processKeywordComment
\* One delivery is handled to completion before the next.  A run follows the comments of one
\* kind (issue or review comments) and one kind of failing request.  In these runs the store holds its
\* records by value: no handler keeps a record across deliveries, so an assignment to a field
\* of a stored record is an update of the entry in place.
CommentIds == {5, 55}
\* STORAGE_MAX_ENTRIES of these runs (the default is 500)
KwCap == 2
Fails == {"none", "github", "history", "replies", "write"}
\* requests of fetchPullRequestState that can fail besides pulls.get ("github")
FetchFails == {"listReviews", "listForRef"}
KwVariants == {Variant(NoReviewers, CiPending)}

\* SLACK_COMMENT_KEYWORDS="urgent"
COMMENT_KEYWORDS == << <<"urgent">> >>

\* String.prototype.toLowerCase over the words used here
LowerWord(w) == IF w = "URGENT" THEN "urgent" ELSE w
toLowerCase(s) == [i \in 1..Len(s) |-> LowerWord(s[i])]

\* comment bodies (all shorter than 400 characters): two that hold the keyword, one that does not
Bodies == {<<"URGENT", ": please look">>, <<"this is ", "urgent">>, <<"looks good">>}

\* the first configured keyword found in the lower-cased body, or the empty string for undefined
findMatchingKeyword(body) ==
  LET hits == {i \in 1..Len(COMMENT_KEYWORDS) : Includes(toLowerCase(body), toLowerCase(COMMENT_KEYWORDS[i]))}
  IN IF hits = {} THEN <<>> ELSE COMMENT_KEYWORDS[CHOOSE i \in hits : \A j \in hits : i <= j]

\* the buildUrl each handler passes
buildUrl(name, prNumber, id) ==
  <<"https://github.com/owner/repo/pull/">> \o NumStr(prNumber)
    \o <<IF name = "issue_comment" THEN "#issuecomment-" ELSE "#discussion_r">> \o NumStr(id)

\* url.indexOf("#"), 0 for -1
HashIndex(url) ==
  LET is == {i \in 1..Len(url) : url[i] \in {"#issuecomment-", "#discussion_r"}}
  IN IF is = {} THEN 0 ELSE CHOOSE i \in is : \A j \in is : i <= j

\* `if (hashIndex !== -1) anchorFragment = url.substring(hashIndex)`
anchorFragment(url) == IF HashIndex(url) # 0 THEN SubSeq(url, HashIndex(url), Len(url)) ELSE <<>>

commentKey(prNumber, id) == <<"comment:">> \o PrKey(prNumber) \o <<":">> \o NumStr(id)

\* (the separator before the link is an en dash in the source)
buildKeywordCommentMessage(prNumber, id, author, body, url) ==
  <<"Comment by @", author>> \o (IF Truthy(url) THEN <<" - ">> \o url ELSE <<>>)
    \o <<"\n">> \o body \o <<"\n">> \o Marker(commentKey(prNumber, id))

\* a client that is constructed whatever the environment holds
SlackEnabledAlways == TRUE

\* `const slack = slackToken && slackChannel ? new SlackClient(slackToken) : null`
SlackEnabled == inputs.slack

\* a fetch that never throws
FetchThrowsNever(fail) == FALSE

\* fetchPullRequestState rethrows a failure of pulls.get and of nothing else
FetchThrows(fail) == fail = "github"

\* fetchPullRequestState when it returns: a failed listReviews reads as no review and a failed
\* checks.listForRef as no check run (the pull requests here have no requested reviewers)
fetchPullRequestState(prNumber, variant, fail) ==
  AggState(prNumber, Variant(IF fail = "listReviews" THEN NoReviewers ELSE variant.reviewers,
                             IF fail = "listForRef" THEN NoChecks ELSE variant.checks))

\* an abort test that never aborts
CannotProceedNever(hasParent, foundTs) == FALSE

\* `if (!parentRecord) { foundTs = await findMessageByKey(...); if (!foundTs) return; ...`
CannotProceed(hasParent, foundTs) == ~hasParent /\ foundTs = Undefined

\* an update addressed to the record's summary
existingTargetParent(existing) == existing.ts

\* `slack.updateMessage({ channel: existing.channel, ts: existing.thread_ts, text })`
existingTarget(existing) == existing.thread_ts

\* handlers that mirror every comment event
MirroredAlways(action) == TRUE

\* the created handlers call processKeywordComment; the edited/deleted handlers only
\* `if (context.payload.action === "edited")`
Mirrored(action) == action # "deleted"

Rec(ts, thread_ts, last_main, last_thread) ==
  [ts |-> ts, thread_ts |-> thread_ts, last_main |-> last_main, last_thread |-> last_thread]

\* Bind names the value of one step for the steps that follow
The(S) == CHOOSE x \in S : TRUE
Bind(v, F(_)) == The({F(x) : x \in {v}})

\* The handler's progress: store, channel, lookup cache, the Slack requests made so far, the
\* value the last call returned, and whether an error is propagating.
Progress(store, ms, fc) ==
  [store |-> store, msgs |-> ms, fc |-> fc, calls |-> <<>>, ret |-> Undefined, rec |-> NoRec, threw |-> FALSE]

\* slack.findMessageByKey(channel, key); a failing history request is swallowed
DoFind(s, key, fail) ==
  IF s.threw THEN s
  ELSE IF lookupKey(s.fc, key) # Undefined
  THEN [s EXCEPT !.fc = lookupRefresh(@, key), !.ret = lookupKey(s.fc, key)]
  ELSE LET ts == IF fail = "history" THEN Undefined ELSE scanHistory(s.msgs, key, DefaultMaxMessages)
       IN [s EXCEPT !.fc = IF ts = Undefined THEN @ ELSE rememberKey(@, findCacheSize, key, ts),
                    !.calls = Append(@, Call("history", ts, Undefined, markerFragment(key), fail # "history")),
                    !.ret = ts]

\* slack.findReplyByMarker(channel, parentTs, fragment); a failing replies request is swallowed
DoFindReply(s, parentTs, fragment, fail) ==
  IF s.threw THEN s
  ELSE LET ts == IF fail = "replies" THEN Undefined ELSE scanReplies(s.msgs, parentTs, fragment)
       IN [s EXCEPT !.calls = Append(@, Call("replies", ts, parentTs, fragment, fail # "replies")),
                    !.ret = ts]

\* slack.postMessage({channel, text, thread_ts})
DoPost(s, text, parent, kind, num, fail) ==
  IF s.threw THEN s
  ELSE IF fail = "write"
  THEN [s EXCEPT !.calls = Append(@, Call("post", Undefined, parent, text, FALSE)),
                 !.ret = Undefined, !.threw = TRUE]
  ELSE [s EXCEPT !.msgs = Append(@, Msg(text, parent, kind, num, FALSE)),
                 !.calls = Append(@, Call("post", Len(s.msgs) + 1, parent, text, TRUE)),
                 !.ret = Len(s.msgs) + 1]

\* slack.updateMessage({channel, ts, text})
DoUpdate(s, ts, text, fail) ==
  IF s.threw THEN s
  ELSE IF fail = "write" \/ ts \notin 1..Len(s.msgs)
  THEN [s EXCEPT !.calls = Append(@, Call("update", ts, Undefined, text, FALSE)), !.threw = TRUE]
  ELSE [s EXCEPT !.msgs[ts].text = text,
                 !.calls = Append(@, Call("update", ts, Undefined, text, TRUE))]

\* storage.set(key, record)
DoSet(s, key, record) ==
  IF s.threw THEN s ELSE [s EXCEPT !.store = StorageSet(@, maxEntries, key, record)]

\* `record.last_main = text` / `record.last_thread = text` on a record of the store
DoAssign(s, key, field, text) ==
  IF s.threw \/ ~Has(s.store, key) THEN s
  ELSE LET record == StorageGet(s.store, key)
       IN [s EXCEPT !.store = MapSet(@, key, IF field = "last_main" THEN [record EXCEPT !.last_main = text]
                                                ELSE [record EXCEPT !.last_thread = text])]

\* the progress after recoverRecord; rec is the record it returns (NoRec for undefined)
recoverRecord(s, key, state, fail) ==
  Bind(buildMessages(state), LAMBDA m :
  Bind(DoFind(s, key, fail), LAMBDA s1 :
    IF s1.ret = Undefined THEN s1
    ELSE
  Bind(DoFindReply(s1, s1.ret, searchFragment(m.thread), fail), LAMBDA s2 :
  Bind(IF s2.ret = Undefined THEN DoPost(s2, m.thread, s1.ret, "detail", state.number, fail)
       ELSE DoUpdate(s2, s2.ret, m.thread, fail), LAMBDA s3 :
  Bind(DoUpdate(s3, s1.ret, m.main, fail), LAMBDA s4 :
  Bind(DoSet(s4, key, Rec(s1.ret, s3.ret, m.main, m.thread)), LAMBDA s5 :
    IF s5.threw THEN s5 ELSE [s5 EXCEPT !.rec = Rec(s1.ret, s3.ret, m.main, m.thread)]))))))

createRecord(s, state, fail) ==
  Bind(buildMessages(state), LAMBDA m :
  Bind(DoPost(s, m.main, Undefined, "summary", state.number, fail), LAMBDA s2 :
  Bind(DoPost(s2, m.thread, createThreadParent(s2.ret), "detail", state.number, fail), LAMBDA s3 :
    IF s3.threw THEN s3 ELSE [s3 EXCEPT !.rec = Rec(s2.ret, s3.ret, m.main, m.thread)])))

updateRecord(s, key, state, event, fail) ==
  Bind(buildMessages(state), LAMBDA m :
  Bind(StorageGet(s.store, key), LAMBDA record :
    IF SkipUpdate(Force(event), record.last_main = m.main, record.last_thread = m.thread) THEN s
    ELSE
  Bind(IF Force(event) \/ record.last_main # m.main THEN DoUpdate(s, record.ts, m.main, fail) ELSE s,
       LAMBDA u1 :
  Bind(IF Force(event) \/ record.last_main # m.main THEN DoAssign(u1, key, "last_main", m.main) ELSE u1,
       LAMBDA s2 :
  Bind(IF Force(event) \/ record.last_thread # m.thread THEN DoUpdate(s2, record.thread_ts, m.thread, fail)
       ELSE s2, LAMBDA u2 :
    IF Force(event) \/ record.last_thread # m.thread THEN DoAssign(u2, key, "last_thread", m.thread)
    ELSE u2)))))

\* executeSync run to completion; every error thrown inside is caught
executeSync(s, prNumber, variant, event, fail) ==
  Bind(IF ~SlackEnabled \/ FetchThrows(fail) THEN s
       ELSE IF Has(s.store, PrKey(prNumber))
       THEN updateRecord(s, PrKey(prNumber), fetchPullRequestState(prNumber, variant, fail), event, fail)
       ELSE Bind(recoverRecord(s, PrKey(prNumber), fetchPullRequestState(prNumber, variant, fail), fail), LAMBDA r :
            Bind(IF r.threw \/ r.rec # NoRec THEN r
                 ELSE createRecord(r, fetchPullRequestState(prNumber, variant, fail), fail),
                 LAMBDA made : DoSet(made, PrKey(prNumber), made.rec))),
       LAMBDA done : [done EXCEPT !.threw = FALSE, !.ret = Undefined, !.rec = NoRec])

\* what processKeywordComment did: the path it took, its requests, what it found on entry
Taken(path, s, entry, matched, foundTs, replyTs) ==
  [path |-> path, calls |-> s.calls, rejected |-> (path = "placeholder failed"),
   matched |-> matched, hadMain |-> Has(entry.store, entry.prKey),
   hadExisting |-> Has(entry.store, entry.commentKey),
   was |-> IF Has(entry.store, entry.commentKey) THEN StorageGet(entry.store, entry.commentKey) ELSE NoRec,
   kept |-> (s.store = entry.store),
   foundTs |-> foundTs, replyTs |-> replyTs,
   replyWas |-> IF replyTs = Undefined THEN NoText ELSE entry.msgs[replyTs].text]

\* the handler's promise settles: nothing is propagating any more
Settle(s) == [s EXCEPT !.threw = FALSE, !.ret = Undefined]

\* lines 49-66: the record of the pull request is in the store, or is recovered from the channel
\* (ret is then the summary found, Undefined if none)
parentRecord(s, prKey, prNumber, fail) ==
  IF Has(s.store, prKey) THEN [s EXCEPT !.ret = StorageGet(s.store, prKey).ts]
  ELSE
  Bind(DoFind(s, prKey, fail), LAMBDA f1 :
    IF CannotProceed(Has(s.store, prKey), f1.ret) THEN f1
    ELSE
  Bind(DoFindReply(f1, f1.ret, BreakdownHeader, fail), LAMBDA f2 :
  Bind(IF f2.ret = Undefined THEN DoPost(f2, NoChecksText, f1.ret, "detail", prNumber, fail) ELSE f2,
       LAMBDA f3 :
  Bind(DoSet(f3, prKey, Rec(f1.ret, f3.ret, NoText, NoText)), LAMBDA f4 : [f4 EXCEPT !.ret = f1.ret]))))

\* lines 73-93: the progress after the try block and the path taken through it
mirrorComment(p, entry, parentTs, cKey, url, messageText, fail) ==
  IF Has(p.store, cKey)
  THEN Bind(DoUpdate(p, existingTarget(StorageGet(p.store, cKey)), messageText, fail), LAMBDA e1 :
       Bind(DoAssign(e1, cKey, "last_main", messageText), LAMBDA e2 :
         [s |-> Settle(e2),
          did |-> Taken(IF e2.threw THEN "failed" ELSE "existing", e2, entry, TRUE, parentTs, Undefined)]))
  ELSE
  Bind(IF Truthy(anchorFragment(url)) THEN DoFindReply(p, parentTs, anchorFragment(url), fail)
       ELSE [p EXCEPT !.ret = Undefined], LAMBDA r1 :
  Bind(IF r1.ret # Undefined THEN DoUpdate(r1, r1.ret, messageText, fail)
       ELSE DoPost(r1, messageText, parentTs, "keyword", 1, fail), LAMBDA r2 :
  Bind(DoSet(r2, cKey, Rec(parentTs, r2.ret, messageText, NoText)), LAMBDA r3 :
    [s |-> Settle(r3),
     did |-> Taken(IF r3.threw THEN "failed" ELSE IF r1.ret # Undefined THEN "found" ELSE "created",
                   r3, entry, TRUE, parentTs, r1.ret)])))

\* processKeywordComment run to completion: the progress after it and what it did
processKeywordComment(s0, prNumber, name, id, body, fail) ==
  Bind([s0 EXCEPT !.calls = <<>>], LAMBDA s :
  Bind([store |-> s.store, msgs |-> s.msgs, prKey |-> PrKey(prNumber), commentKey |-> commentKey(prNumber, id)],
       LAMBDA entry :
    IF ~SlackEnabled
    THEN [s |-> s, did |-> Taken("slack disabled", s, entry, FALSE, Undefined, Undefined)]
    ELSE IF ~Truthy(findMatchingKeyword(body))
    THEN [s |-> s, did |-> Taken("no keyword", s, entry, FALSE, Undefined, Undefined)]
    ELSE
  Bind(parentRecord(s, PrKey(prNumber), prNumber, fail), LAMBDA p :
    IF p.threw
    THEN [s |-> Settle(p), did |-> Taken("placeholder failed", p, entry, TRUE, p.ret, Undefined)]
    ELSE IF p.ret = Undefined
    THEN [s |-> Settle(p), did |-> Taken("abort", p, entry, TRUE, Undefined, Undefined)]
    ELSE mirrorComment(Settle(p), entry, p.ret, commentKey(prNumber, id), buildUrl(name, prNumber, id),
                       buildKeywordCommentMessage(prNumber, id, "alice", body, buildUrl(name, prNumber, id)),
                       fail))))

NotCalled ==
  [path |-> "not called", calls |-> <<>>, rejected |-> FALSE, matched |-> FALSE, hadMain |-> FALSE,
   hadExisting |-> FALSE, was |-> NoRec, kept |-> TRUE, foundTs |-> Undefined, replyTs |-> Undefined,
   replyWas |-> NoText]

\* what a handler found in the store before it called scheduleSync: the comment's record, and
\* whether that record was the oldest entry of a full store without the pull request's record
Before(store, prNumber, id) ==
  [own |-> IF Has(store, commentKey(prNumber, id)) THEN StorageGet(store, commentKey(prNumber, id)) ELSE NoRec,
   oldest |-> (Len(store) >= maxEntries /\ Len(store) > 0 /\ store[1].key = commentKey(prNumber, id)
               /\ ~Has(store, PrKey(prNumber)))]

\* the record the store holds for the pull request once scheduleSync has returned
RecordOf(store, prNumber) == IF Has(store, PrKey(prNumber)) THEN StorageGet(store, PrKey(prNumber)) ELSE NoRec

KwInit ==
  /\ cache = <<>>
  /\ maxEntries = KwCap
  /\ got = Undefined
  /\ recs = [o \in Objs |-> NoRec]
  /\ findCache = <<>>
  /\ findCacheSize = DefaultFindCacheSize
  /\ msgs = <<>>
  /\ loc = [h \in Handlers |-> IdleLoc]
  /\ gh = [h \in Handlers |-> IdleGh]
  /\ lastOk = [n \in AllPRs |-> NoState]
  /\ restarts = 0
  /\ workers = 1
  /\ inputs \in {[prs |-> {1}, kinds |-> kinds, variants |-> KwVariants, cap |-> KwCap, restarts |-> 0,
                  outcomes |-> {"none", fail}, slack |-> TRUE] :
                   kinds \in {IssueCommentKinds, ReviewCommentKinds}, fail \in Fails \ {"none"}}
  /\ trail = NoTrail
  /\ retry = IdleRetry
  /\ scan = IdleScan
  /\ deb = IdleDeb
  /\ kw = IdleKw
  /\ prev = Untracked

KwUnchanged ==
  UNCHANGED <<maxEntries, got, recs, findCacheSize, loc, gh, lastOk, restarts, workers, inputs, trail, retry,
              scan, deb, prev>>

\* app.on(issue_comment.* / pull_request_review_comment.*) for a comment on a pull request:
\* scheduleSync, then, unless the comment was deleted, processKeywordComment
CommentDelivery(kind, id, body, variant, fail) ==
  /\ kind \in inputs.kinds
  /\ fail \in inputs.outcomes
  /\ \E synced \in {executeSync(Progress(cache, msgs, findCache), 1, variant, EventArg(kind), fail)} :
     \E k \in {IF Mirrored(kind.action) THEN processKeywordComment(synced, 1, kind.name, id, body, fail)
               ELSE [s |-> synced, did |-> NotCalled]} :
       /\ Len(k.s.msgs) <= MaxKwMsgs
       /\ cache' = k.s.store
       /\ msgs' = k.s.msgs
       /\ findCache' = k.s.fc
       /\ kw' = [pc |-> "handled", kind |-> kind, id |-> id, ignored |-> FALSE,
                 before |-> Before(cache, 1, id), sync |-> synced.calls, bound |-> RecordOf(synced.store, 1),
                 did |-> k.did]
  /\ KwUnchanged

\* app.on(issue_comment.*) for a comment on an issue that is no pull request: the handler returns
IssueDelivery(kind, id) ==
  /\ kind \in inputs.kinds
  /\ kw' = [pc |-> "handled", kind |-> kind, id |-> id, ignored |-> TRUE,
            before |-> Before(cache, 1, id), sync |-> <<>>, bound |-> RecordOf(cache, 1), did |-> NotCalled]
  /\ UNCHANGED <<cache, msgs, findCache>>
  /\ KwUnchanged

\* the process restarts: store and lookup cache are lost, the channel stays (restarts are not
\* counted in these runs)
KwRestart ==
  /\ cache' = <<>>
  /\ findCache' = <<>>
  /\ kw' = IdleKw
  /\ UNCHANGED msgs
  /\ KwUnchanged

KwNext ==
  \/ \E kind \in IssueCommentKinds \cup ReviewCommentKinds, id \in CommentIds, body \in Bodies,
        variant \in KwVariants, fail \in Fails :
       CommentDelivery(kind, id, body, variant, fail)
  \/ \E kind \in IssueCommentKinds, id \in CommentIds : IssueDelivery(kind, id)
  \/ KwRestart

SpecKeyword == KwInit /\ [][KwNext]_vars

\* ------------------------------------------------ every handler of the app
\* Runs over all the handlers the app registers, each run to completion: one family without a
\* Slack client, one per failing request of fetchPullRequestState, and one in which a store of
\* one entry is shared by the record of the pull request and the records of its comments, with
\* Slack writes that succeed or fail.
NotifyVariants == {Variant(NoReviewers, NoChecks), Variant(BobApproved, CiPending)}
SyncKinds == PullRequestKinds \cup ReviewKinds \cup CheckKinds
SomeSyncKinds == {[name |-> "pull_request", action |-> "opened"],
                  [name |-> "pull_request_review", action |-> "submitted"],
                  [name |-> "check_run", action |-> "completed"]}

NotifyInit ==
  /\ cache = <<>>
  /\ maxEntries = 1
  /\ got = Undefined
  /\ recs = [o \in Objs |-> NoRec]
  /\ findCache = <<>>
  /\ findCacheSize = DefaultFindCacheSize
  /\ msgs = <<>>
  /\ loc = [h \in Handlers |-> IdleLoc]
  /\ gh = [h \in Handlers |-> IdleGh]
  /\ lastOk = [n \in AllPRs |-> NoState]
  /\ restarts = 0
  /\ workers = 1
  /\ inputs \in {[prs |-> {1}, kinds |-> Kinds, variants |-> NotifyVariants, cap |-> 1, restarts |-> 0,
                  outcomes |-> {"none"}, slack |-> FALSE]}
                \cup {[prs |-> {1}, kinds |-> SomeSyncKinds, variants |-> NotifyVariants, cap |-> 1,
                       restarts |-> 0, outcomes |-> {"none", fail}, slack |-> TRUE] :
                        fail \in {"github"} \cup FetchFails}
                \cup {[prs |-> {1}, kinds |-> {[name |-> "issue_comment", action |-> "created"],
                                              [name |-> "pull_request", action |-> "synchronize"]},
                       variants |-> NotifyVariants, cap |-> 1, restarts |-> 0, outcomes |-> {"none", "write"},
                       slack |-> TRUE]}
  /\ trail = NoTrail
  /\ retry = IdleRetry
  /\ scan = IdleScan
  /\ deb = IdleDeb
  /\ kw = IdleKw
  /\ prev = Untracked

\* app.on(pull_request.* / pull_request_review.* / check_suite.completed / check_run.completed):
\* scheduleSync for the pull request (the one the commit of a check event is associated with)
SyncDelivery(kind, variant, fail) ==
  /\ kind \in inputs.kinds
  /\ fail \in inputs.outcomes
  /\ \E synced \in {executeSync(Progress(cache, msgs, findCache), 1, variant, EventArg(kind), fail)} :
       /\ Len(synced.msgs) <= MaxKwMsgs
       /\ cache' = synced.store
       /\ msgs' = synced.msgs
       /\ findCache' = synced.fc
       /\ kw' = [pc |-> "synced", kind |-> kind, fail |-> fail, variant |-> variant,
                 kept |-> (synced.store = cache), sync |-> synced.calls,
                 bound |-> RecordOf(synced.store, 1)]
  /\ KwUnchanged

NotifyNext ==
  \/ \E kind \in SyncKinds, variant \in NotifyVariants, fail \in Fails \cup FetchFails :
       SyncDelivery(kind, variant, fail)
  \/ \E kind \in IssueCommentKinds \cup ReviewCommentKinds, id \in CommentIds, body \in Bodies,
        variant \in NotifyVariants, fail \in Fails :
       CommentDelivery(kind, id, body, variant, fail)
  \/ KwRestart

SpecNotify == NotifyInit /\ [][NotifyNext]_vars

\* ================================================================ claims
SpecForcedKinds == IssueCommentKinds \cup ReviewCommentKinds \cup {[name |-> "pull_request_review", action |-> "submitted"]}
CommentKinds == IssueCommentKinds \cup ReviewCommentKinds

Done(h) == loc[h].pc = "done"
Healthy(h) == \A i \in 1..Len(gh[h].calls) : gh[h].calls[i].ok
\* the post and update calls of a cycle, in order
Writes(h) == SelectSeq(gh[h].calls, LAMBDA c : c.op \in {"post", "update"})
Created(kind, n) == {i \in 1..Len(msgs) : msgs[i].origin = [kind |-> kind, num |-> n, cold |-> TRUE]}

\* C1: notifications for one key that all start while the store has no record and the
\* channel holds no anchored message create at most one summary and at most one detail
\* message, however their handlers interleave.
C1_AtMostOnePair ==
  \A n \in AllPRs : Cardinality(Created("summary", n)) <= 1 /\ Cardinality(Created("detail", n)) <= 1

\* C2: a cycle that finds the key Bound, whose aggregated state equals that of the previous
\* cycle of the key (which ran alone and succeeded) and whose trigger is not a forced-refresh
\* event, issues no transport call at all and leaves the record as it was.
C2_Idempotent ==
  \A h \in Handlers :
    (gh[h].path = "bound" /\ gh[h].repeat /\ loc[h].kind \notin SpecForcedKinds)
      => (Done(h) /\ gh[h].calls = <<>> /\ gh[h].outcome = "ok" /\ gh[h].after = gh[h].pre)

C2_Witness ==
  \E h \in Handlers : gh[h].path = "bound" /\ gh[h].repeat /\ loc[h].kind \notin SpecForcedKinds /\ Done(h)
                      /\ gh[h].pre # NoRec

\* C3: a cycle for a Bound key triggered by a comment creation, edit or deletion (issue
\* comment or inline review comment) issues one update to summaryId and then, when that
\* update succeeds, one update to detailId, and nothing else, whether or not the rendered
\* bodies changed.
C3_ForcedComment ==
  \A h \in Handlers :
    (Done(h) /\ gh[h].path = "bound" /\ loc[h].kind \in CommentKinds)
      => LET c == gh[h].calls
             r == recs[loc[h].rec]
             m == buildMessages(loc[h].st)
         IN /\ Len(c) >= 1
            /\ c[1] = Call("update", r.ts, Undefined, m.main, c[1].ok)
            /\ IF c[1].ok THEN Len(c) = 2 /\ c[2] = Call("update", r.thread_ts, Undefined, m.thread, c[2].ok)
               ELSE Len(c) = 1

C3_Witness ==
  \E h \in Handlers : Done(h) /\ gh[h].path = "bound" /\ loc[h].kind \in CommentKinds
                      /\ loc[h].sameMain /\ loc[h].sameThread /\ Len(gh[h].calls) = 2 /\ Healthy(h)

\* C4: a review-submission notification for a Bound key is a forced refresh: the cycle
\* updates both the summary and the detail even when the rendered bodies are unchanged.
C4_ReviewSubmittedForced ==
  \A h \in Handlers :
    (Done(h) /\ gh[h].path = "bound" /\ gh[h].outcome = "ok"
       /\ loc[h].kind = [name |-> "pull_request_review", action |-> "submitted"])
      => LET r == recs[loc[h].rec] IN
         /\ Len(gh[h].calls) = 2
         /\ gh[h].calls[1].op = "update" /\ gh[h].calls[1].ts = r.ts
         /\ gh[h].calls[2].op = "update" /\ gh[h].calls[2].ts = r.thread_ts

\* C5: a cycle that finds no record and no anchored message and meets no transport failure
\* issues two posts, the summary (not threaded, carrying the key's anchor) and then the detail
\* threaded to the summary's identifier, issues no update, and leaves the store mapping the
\* key to a record of exactly those identifiers and bodies.
C5_ColdStart ==
  \A h \in Handlers :
    (Done(h) /\ gh[h].path = "create" /\ gh[h].outcome = "ok")
      => LET w == Writes(h)
             m == buildMessages(loc[h].st)
         IN /\ Len(w) = 2
            /\ w[1].ts # Undefined /\ w[2].ts # Undefined /\ w[1].ts # w[2].ts
            /\ w[1] = Call("post", w[1].ts, Undefined, m.main, TRUE)
            /\ Includes(m.main, markerFragment(PrKey(loc[h].num)))
            /\ w[2] = Call("post", w[2].ts, w[1].ts, m.thread, TRUE)
            /\ gh[h].after = [ts |-> w[1].ts, thread_ts |-> w[2].ts, last_main |-> m.main, last_thread |-> m.thread]

C5_Witness ==
  \E h \in Handlers : Done(h) /\ gh[h].path = "create" /\ gh[h].outcome = "ok" /\ gh[h].pre = NoRec
                      /\ gh[h].sum0 = Undefined /\ Healthy(h)

\* the detail reply the thread offered for the fragment of the cycle's state
Offered(h) ==
  IF buildMessages(loc[h].st).thread = NoChecksText THEN gh[h].rep0.none ELSE gh[h].rep0.breakdown

Recoverable(h) ==
  gh[h].pre = NoRec /\ gh[h].sum0 # Undefined /\ loc[h].st # NoState /\ Offered(h) # Undefined

C7_NoMutationOnFailure ==
  \A h \in Handlers : (Done(h) /\ gh[h].outcome = "aborted") => gh[h].after = gh[h].pre

\* C8: the promise of executeSync never rejects: whatever fails, the cycle ends resolved.
C8_NeverRejects ==
  \A h \in Handlers : gh[h].settled # "rejected" /\ (Done(h) => gh[h].settled = "resolved")

C8_Witness ==
  \E h \in Handlers : Done(h) /\ gh[h].outcome = "aborted" /\ gh[h].settled = "resolved"
                      /\ Len(gh[h].calls) > 0 /\ ~Healthy(h)

\* C9: the size of the store never exceeds its configured capacity.
C9_SizeBound == StorageSize(cache) <= maxEntries

AfterAbac(a, b, c) ==
  /\ maxEntries = 2
  /\ a # b /\ a # c /\ b # c
  /\ trail = [keys |-> <<a, b, a, c>>, exact |-> TRUE]

\* C11 as stated: a set on a key already present refreshes the key's recency, so that after
\* set(a), set(b), set(a) on a store of capacity 2 a further set(c) evicts b and keeps a.
C11_SetRefreshesRecency ==
  \A a, b, c \in StoreKeys :
    AfterAbac(a, b, c) => (Has(cache, a) /\ ~Has(cache, b) /\ Has(cache, c))

\* C11 amended: a set on a key already present replaces the record and leaves the key at its
\* first-insertion position, so that after set(a), set(b), set(a) on a store of capacity 2 a
\* further set(c) keeps b and c, and evicts a (whenever a is not the empty key).
C11_SetKeepsPosition ==
  \A a, b, c \in StoreKeys :
    AfterAbac(a, b, c) => /\ Has(cache, b) /\ Has(cache, c)
                          /\ Truthy(a) => (~Has(cache, a) /\ KeysOf(cache) = {b, c})

C11_Witness ==
  \E a, b, c \in StoreKeys : AfterAbac(a, b, c) /\ Truthy(a) /\ ~Has(cache, a) /\ Has(cache, b)

\* ---- rate-limit retry
Invocations == Len(retry.log)
\* an error that is a rate-limit response of the transport
RateLimitResponse(err) == err.code = RateLimitedError \/ err.dataError = "ratelimited"
RetryRunning == retry.pc # "idle"

C13_OtherFailurePropagates ==
  [][(retry.pc = "caught" /\ ~RateLimitResponse(retry.err))
       => (retry'.pc = "thrown" /\ retry'.thrown = retry.err /\ retry'.log = retry.log
           /\ retry'.sleeps = retry.sleeps)]_vars

C13_Witness ==
  retry.pc = "thrown" /\ ~RateLimitResponse(retry.thrown) /\ retry.log = <<"ratelimited", "error">>

\* C14: a call whose first attempt is rate-limited is not ended by that response, and when
\* its second attempt succeeds it returns the second attempt's result after exactly two
\* invocations and exactly one sleep.
C14_SecondAttemptSucceeds ==
  /\ (RetryRunning /\ Invocations = 1 /\ retry.log[1] = "ratelimited") => retry.pc \in {"caught", "sleep", "op"}
  /\ (RetryRunning /\ Invocations = 2 /\ retry.log = <<"ratelimited", "ok">>)
       => (retry.pc = "returned" /\ retry.result = 2 /\ Len(retry.sleeps) = 1)

C14_Witness ==
  retry.pc = "returned" /\ retry.log = <<"ratelimited", "ok">> /\ retry.result = 2 /\ Len(retry.sleeps) = 1

\* the delay the transport provided: the first of the three places that holds a value
ProvidedDelay(err) ==
  IF err.dataRetryAfter # JsUndefined THEN err.dataRetryAfter
  ELSE IF err.retryAfter # JsUndefined THEN err.retryAfter
  ELSE IF err.header # JsUndefined THEN parseInt(err.header)
  ELSE JsUndefined

\* the sleep the retry policy prescribes, in milliseconds
PrescribedSleep(err) == IF ProvidedDelay(err).t = "number" THEN ProvidedDelay(err).v * 1000 ELSE 1000

\* C15: the sleep before a retry lasts the delay the transport provided, in seconds, and 1 second
\* when that delay is absent or malformed; a provided delay of 0 seconds gives a sleep of 0.
C15_RetryDelay ==
  retry.pc = "sleep" => retry.wait = PrescribedSleep(retry.err)

\* ---- history scans
FindRunning == scan.pc # "idle" /\ scan.op = "findMessageByKey" /\ ~scan.cached
FindDone == FindRunning /\ scan.pc = "done"
ReplyDone == scan.pc = "done" /\ scan.op = "findReplyByMarker"
\* the channel history as the scan meets it: top-level messages, newest first
NewestFirst == TopLevelNewestFirst(msgs)
Position(ts) == CHOOSE i \in 1..Len(NewestFirst) : NewestFirst[i] = ts
Decoded(ts) == getPlainTextFromMessage(msgs[ts])
HasAnchor(ts) == Includes(Decoded(ts), markerFragment(scan.key))
RepliesOf(ts) == {i \in 1..Len(msgs) : msgs[i].thread_ts = ts}

\* C16: a scan that ends with a match in a message's own text has examined the history newest
\* first, returns the first examined message whose decoded text contains the anchor, and has
\* requested nothing after the page that held it, even when that page announced more pages.
C16_EarlyExit ==
  (FindDone /\ scan.hit # Undefined /\ msgs[scan.hit].thread_ts = Undefined)
    => LET n == Len(scan.examined)
       IN /\ scan.result = scan.hit /\ scan.hit = scan.examined[n]
          /\ scan.examined = SubSeq(NewestFirst, 1, n)
          /\ HasAnchor(scan.hit)
          /\ \A i \in 1..(n - 1) : ~HasAnchor(scan.examined[i])
          /\ scan.next = n + Len(scan.page)

C16_Witness ==
  /\ FindDone /\ scan.hit # Undefined /\ scan.result = scan.hit
  /\ scan.hasMore /\ scan.nextCursor /\ scan.next < Len(NewestFirst)

\* the first `budget` messages of the history hold no anchor, in their text or (when threads
\* are scanned) in their replies
NoAnchorWithin(budget) ==
  \A i \in 1..Min(Len(NewestFirst), budget) :
    ~HasAnchor(NewestFirst[i]) /\ (scan.includeThread => \A r \in RepliesOf(NewestFirst[i]) : ~HasAnchor(r))

\* a scan of budget `budget`: messages examined, page limits requested, and the result
WithinBudget(budget) ==
  /\ Len(scan.examined) <= budget
  /\ \A i \in 1..Len(scan.limits) : scan.limits[i].limit + scan.limits[i].scanned <= budget
  /\ (scan.pc = "done" /\ NoAnchorWithin(budget)) => scan.result = Undefined

\* C17 as stated: for a history of M messages and any maxScanned < M the scan examines at most
\* maxScanned messages, never asks for a page larger than the budget left, ignores surplus
\* messages and returns absent when none of the first maxScanned messages holds the anchor.
C17_ScanBound ==
  (FindRunning /\ scan.maxMessages < Len(NewestFirst)) => WithinBudget(scan.maxMessages)

\* C17 amended: the same with a budget of max(1, maxScanned): a maxScanned below 1 counts as 1.
C17_ScanBoundAtLeastOne ==
  (FindRunning /\ scan.maxMessages < Len(NewestFirst)) => WithinBudget(Max(1, scan.maxMessages))

C17_Witness ==
  /\ FindDone /\ ~scan.failed /\ scan.maxMessages >= 1 /\ scan.maxMessages < Len(NewestFirst)
  /\ scan.next > scan.maxMessages /\ Len(scan.examined) = scan.maxMessages
  /\ scan.result = Undefined
  /\ \E i \in (scan.maxMessages + 1)..Len(NewestFirst) : HasAnchor(NewestFirst[i])

\* the texts a value of a block holds: a string, or the text of a text object
ValueTexts(v) ==
  IF v.t = "string" THEN {v.s}
  ELSE IF v.t = "object" /\ v.text.t = "string" THEN {v.text.s}
  ELSE {}

\* the anchor occurs in the plain text of the message or in the text, a field or an element
\* of one of its blocks
AnchorSomewhere(ts) ==
  \/ Includes(msgs[ts].text, markerFragment(scan.key))
  \/ \E b \in 1..Len(msgs[ts].blocks) :
       LET blk == msgs[ts].blocks[b]
           texts == ValueTexts(blk.text)
                    \cup UNION {ValueTexts(blk.fields[i]) : i \in 1..Len(blk.fields)}
                    \cup UNION {ValueTexts(blk.elements[i]) : i \in 1..Len(blk.elements)}
       IN \E t \in texts : Includes(t, markerFragment(scan.key))

OnlyAnchored(ts) == AnchorSomewhere(ts) /\ \A other \in 1..Len(msgs) : other # ts => ~AnchorSomewhere(other)

\* C18: when exactly one message of the channel holds the anchor, in its plain text or in the
\* text, fields or elements of its blocks, and the history pages handed to the scan include it
\* within the scan budget, the scan returns that message's identifier.
C18_Determinism ==
  (FindDone /\ ~scan.failed)
    => \A ts \in TopLevel(msgs) :
         (OnlyAnchored(ts) /\ Position(ts) <= Min(scan.next, scan.markerLimit)) => scan.result = ts

C18_Witness ==
  /\ FindDone /\ scan.result # Undefined /\ OnlyAnchored(scan.result)
  /\ ~Includes(msgs[scan.result].text, markerFragment(scan.key))
  /\ msgs[scan.result].blocks[1].text = JsUndefined

\* C19: with includeThread unset no reply list is fetched; with it set, once the scan has
\* examined a parent whose own text lacks the anchor and one of whose replies holds it, the
\* scan returns the parent's identifier, not the reply's.
C19_ThreadMatchReturnsParent ==
  FindRunning =>
    /\ ~scan.includeThread => (scan.threads = <<>> /\ scan.pc # "thread")
    /\ (scan.pc = "done" /\ ~scan.failed /\ scan.includeThread)
         => \A i \in 1..Len(scan.examined) :
              LET p == scan.examined[i]
              IN (~HasAnchor(p) /\ \E r \in RepliesOf(p) : HasAnchor(r))
                   => (scan.result = p /\ scan.hit \in RepliesOf(p))

C19_Witness ==
  /\ FindDone /\ scan.includeThread /\ scan.hit # Undefined /\ scan.hit # scan.result
  /\ msgs[scan.hit].thread_ts = scan.result /\ ~HasAnchor(scan.result)

CallStep == ScanOver /\ scan' # scan /\ scan'.op = "findMessageByKey"
Returns == scan' # scan /\ scan'.pc = "done" /\ scan'.op = "findMessageByKey"

\* C21: a findMessageByKey call for a key that is in the lookup cache returns at once the
\* identifier the latest successful call for that key returned, without any history or
\* replies request; a call that returns an identifier leaves it cached under the key (capacity
\* above 0), and a call that returns nothing leaves the cache as it was.
C21_LookupCache ==
  [][/\ (CallStep /\ Has(findCache, scan'.key))
          => (scan'.pc = "done" /\ scan'.result # Undefined
              /\ scan'.result = StorageGet(scan.known, scan'.key)
              /\ scan'.limits = <<>> /\ scan'.threads = <<>> /\ scan'.examined = <<>>)
     /\ (Returns /\ scan'.result = Undefined) => findCache' = findCache
     /\ (Returns /\ scan'.result # Undefined /\ findCacheSize > 0)
          => StorageGet(findCache', scan'.key) = scan'.result]_vars

C21_Witness ==
  /\ scan.pc = "done" /\ scan.op = "findMessageByKey" /\ scan.cached
  /\ scan.result # Undefined /\ scan.limits = <<>> /\ Len(findCache) = 2

C30_AnchorIdentifiesKey ==
  (scan.pc = "done" /\ scan.op = "findMessageByKey" /\ scan.result # Undefined)
    => \A n \in CachePRs : scan.key = PrKey(n) => msgs[scan.result].origin.num = n

\* ---- debounce
\* the latest delivery for pull request n among the first upto deliveries (0 if none)
LastOf(n, upto) ==
  LET is == {i \in 1..upto : deb.arrivals[i].args.prNumber = n}
  IN IF is = {} THEN 0 ELSE CHOOSE i \in is : \A j \in is : j <= i

RunsFor(i) ==
  {r \in 1..Len(deb.runs) : LastOf(deb.runs[r].args.prNumber, deb.runs[r].upto) = i}

\* the next delivery after i for the same pull request (0 if none)
NextOf(i) ==
  LET js == {j \in (i + 1)..Len(deb.arrivals) : deb.arrivals[j].args.prNumber = deb.arrivals[i].args.prNumber}
  IN IF js = {} THEN 0 ELSE CHOOSE j \in js : \A k \in js : j <= k

\* C23: with a window above zero every reconciliation is started by a timer, with the
\* arguments of the latest delivery for its key, no earlier than one window after that
\* delivery; no delivery ends more than one reconciliation; a delivery followed within less
\* than the window by another for the same key starts none; and a delivery not followed within
\* the window has its one reconciliation once the window is over.
C23_Coalescing ==
  (deb.pc = "on" /\ deb.debounceMs > 0) =>
    /\ \A r \in 1..Len(deb.runs) :
         LET last == LastOf(deb.runs[r].args.prNumber, deb.runs[r].upto)
         IN /\ deb.runs[r].by = 0
            /\ last # 0
            /\ deb.runs[r].args = deb.arrivals[last].args
            /\ deb.runs[r].at >= deb.arrivals[last].at + deb.debounceMs
    /\ \A i \in 1..Len(deb.arrivals) :
         /\ Cardinality(RunsFor(i)) <= 1
         /\ (NextOf(i) # 0 /\ deb.arrivals[NextOf(i)].at - deb.arrivals[i].at < deb.debounceMs)
              => RunsFor(i) = {}
         /\ (deb.now > deb.arrivals[i].at + deb.debounceMs
             /\ (NextOf(i) = 0 \/ deb.arrivals[NextOf(i)].at > deb.arrivals[i].at + deb.debounceMs))
              => Cardinality(RunsFor(i)) = 1

C23_Witness ==
  /\ deb.pc = "on" /\ deb.debounceMs = 2 /\ Len(deb.arrivals) = 3
  /\ \A i \in 1..3 : deb.arrivals[i].args.prNumber = 1
  /\ deb.arrivals[2].at > deb.arrivals[1].at /\ deb.arrivals[3].at > deb.arrivals[2].at
  /\ deb.arrivals[2].args # deb.arrivals[3].args
  /\ Len(deb.runs) = 1 /\ deb.runs[1].done /\ deb.runs[1].args = deb.arrivals[3].args

\* C24: with a window of zero there is never a timer, every delivery starts its own
\* executeSync call with its own arguments at the moment it arrives, and the promise its
\* handler awaits is settled exactly when that call has finished.
C24_ZeroWindow ==
  (deb.pc = "on" /\ deb.debounceMs = 0) =>
    /\ deb.timers = {}
    /\ \A n \in DebPRs : deb.pendingTimers[n] = NoTimer
    /\ Len(deb.runs) = Len(deb.arrivals)
    /\ \A i \in 1..Len(deb.arrivals) :
         /\ deb.runs[i].by = i
         /\ deb.runs[i].args = deb.arrivals[i].args
         /\ deb.runs[i].at = deb.arrivals[i].at
         /\ deb.arrivals[i].settled <=> deb.runs[i].done

C24_Witness ==
  /\ deb.pc = "on" /\ deb.debounceMs = 0 /\ Len(deb.arrivals) = 2
  /\ deb.arrivals[1].at = deb.arrivals[2].at
  /\ deb.arrivals[1].args.prNumber = deb.arrivals[2].args.prNumber
  /\ deb.arrivals[1].settled /\ ~deb.arrivals[2].settled

\* ---- keyword side-channel
\* the last delivery was handled by a comment handler that did not return at once
Handled == kw.pc = "handled" /\ ~kw.ignored

\* create and update calls among the Slack requests of processKeywordComment
KwWrites == SelectSeq(kw.did.calls, LAMBDA c : c.op \in {"post", "update"})
KwCalls(op) == SelectSeq(kw.did.calls, LAMBDA c : c.op = op)

OwnKey == commentKey(1, kw.id)

\* the text mirrors the comment `id` of the given kind: it is the keyword message for that
\* comment's own link
MirrorsComment(text, name, id) ==
  \E body \in Bodies : text = buildKeywordCommentMessage(1, id, "alice", body, buildUrl(name, 1, id))

MirrorsOf(name, id) == {ts \in 1..Len(msgs) : MirrorsComment(msgs[ts].text, name, id)}

\* C25: when a delivered comment holds a keyword, the store has no record for the pull
\* request on entry and findMessageByKey returns nothing, processKeywordComment issues no
\* postMessage and no updateMessage, leaves the store as it was and returns without an error.
C25_SilentAbort ==
  (Handled /\ kw.did.matched /\ ~kw.did.hadMain /\ kw.did.foundTs = Undefined)
    => (KwWrites = <<>> /\ kw.did.kept /\ ~kw.did.rejected)

C25_Witness ==
  /\ Handled /\ kw.did.path = "abort" /\ kw.kind.action = "created" /\ msgs = <<>>
  /\ Len(kw.did.calls) = 1 /\ kw.did.calls[1].op = "history" /\ kw.did.calls[1].ok

\* the update in place of an existing Keyword Comment Record
UpdatedInPlace ==
  /\ Len(KwCalls("update")) = 1
  /\ KwCalls("update")[1].ts = kw.did.was.thread_ts
  /\ KwCalls("post") = <<>>
  /\ KwCalls("replies") = <<>>
  /\ Has(cache, OwnKey)
  /\ StorageGet(cache, OwnKey).ts = kw.did.was.ts
  /\ StorageGet(cache, OwnKey).thread_ts = kw.did.was.thread_ts

C27_RestartDeduplication ==
  /\ (Handled /\ kw.did.path \in {"found", "created"})
       => /\ Len(KwCalls("replies")) >= 1
          /\ KwCalls("replies")[Len(KwCalls("replies"))].text = anchorFragment(buildUrl(kw.kind.name, 1, kw.id))
          /\ Len(KwWrites) = 1
          /\ kw.did.path = "found" => (KwWrites[1].op = "update" /\ KwWrites[1].ts = kw.did.replyTs)
          /\ kw.did.path = "created" => (KwWrites[1].op = "post" /\ KwWrites[1].parent = kw.did.foundTs)
          /\ Has(cache, OwnKey)
          /\ StorageGet(cache, OwnKey).thread_ts = KwWrites[1].ts
  /\ \A name \in {"issue_comment", "pull_request_review_comment"}, id \in CommentIds :
       Cardinality(MirrorsOf(name, id)) <= 1

\* no comment is mirrored twice
AtMostOneMirror ==
  \A name \in {"issue_comment", "pull_request_review_comment"}, id \in CommentIds :
    Cardinality(MirrorsOf(name, id)) <= 1

\* C28: the reply a search for a comment's fragment returns was, when it was found, the
\* mirror of that very comment.
C28_FragmentIdentifiesComment ==
  (Handled /\ kw.did.replyTs # Undefined) => MirrorsComment(kw.did.replyWas, kw.kind.name, kw.id)

\* C29 as stated: a deleted comment never has processKeywordComment called, and the store
\* holds the comment's Keyword Comment Record afterwards exactly as before.
C29_DeletionNotMirrored ==
  (Handled /\ kw.kind.action = "deleted")
    => /\ kw.did.path = "not called" /\ kw.did.calls = <<>>
       /\ kw.before.own # NoRec => (Has(cache, OwnKey) /\ StorageGet(cache, OwnKey) = kw.before.own)
       /\ Has(cache, OwnKey) => kw.before.own # NoRec

\* C29 amended: a deleted comment never has processKeywordComment called; its Keyword Comment
\* Record, if still stored, is as before, and it is gone only if it was the oldest entry of a
\* full store into which the reconciliation wrote the record of the pull request.
C29_DeletionNotMirroredButEvictable ==
  (Handled /\ kw.kind.action = "deleted")
    => /\ kw.did.path = "not called" /\ kw.did.calls = <<>>
       /\ Has(cache, OwnKey) => StorageGet(cache, OwnKey) = kw.before.own
       /\ (kw.before.own # NoRec /\ ~Has(cache, OwnKey)) => (kw.before.oldest /\ Has(cache, PrKey(1)))

C29_Witness ==
  /\ Handled /\ kw.kind.action = "deleted" /\ kw.before.own # NoRec /\ Has(cache, OwnKey)
  /\ Len(kw.sync) = 2 /\ kw.sync[1].op = "update" /\ kw.sync[1].ok
  /\ MirrorsOf(kw.kind.name, kw.id) # {}

\* ---- the engine, continued
\* the calls updateRecord issues for a record and the rendered bodies when nothing fails
SelectiveCalls(pre, m) ==
  (IF pre.last_main # m.main THEN <<Call("update", pre.ts, Undefined, m.main, TRUE)>> ELSE <<>>)
    \o (IF pre.last_thread # m.thread THEN <<Call("update", pre.thread_ts, Undefined, m.thread, TRUE)>> ELSE <<>>)

\* the calls are the expected ones, cut after the first failure
CutAtFailure(calls, expected) ==
  /\ Len(calls) <= Len(expected)
  /\ \A i \in 1..Len(calls) :
       /\ calls[i] = [expected[i] EXCEPT !.ok = calls[i].ok]
       /\ i < Len(calls) => calls[i].ok
  /\ (Len(calls) < Len(expected)) => (calls # <<>> /\ ~calls[Len(calls)].ok)

\* C33: a finished cycle for a Bound key whose trigger is no forced refresh updates the summary
\* exactly when the rendered summary differs from the record's last summary body, and the detail
\* exactly when the rendered detail differs from the record's last detail body, the summary
\* first, and posts nothing; a failed update ends the cycle.
C33_SelectiveUpdate ==
  \A h \in Handlers :
    (Done(h) /\ gh[h].path = "bound" /\ loc[h].kind \notin SpecForcedKinds)
      => CutAtFailure(gh[h].calls, SelectiveCalls(gh[h].pre, buildMessages(loc[h].st)))

C33_Witness ==
  \E h \in Handlers :
    /\ Done(h) /\ gh[h].path = "bound" /\ loc[h].kind = [name |-> "check_run", action |-> "completed"]
    /\ gh[h].pre.last_main = buildMessages(loc[h].st).main
    /\ gh[h].pre.last_thread # buildMessages(loc[h].st).thread
    /\ Len(gh[h].calls) = 1 /\ Healthy(h)

\* the summary is found and its thread offers no reply for the fragment of the cycle's state
RecoverableWithoutReply(h) ==
  gh[h].pre = NoRec /\ gh[h].sum0 # Undefined /\ loc[h].st # NoState /\ Offered(h) = Undefined

\* C34: with no record in the store, an anchored summary S in the history and no reply matching
\* the detail fragment in its thread, a cycle that meets no transport failure posts the current
\* detail body once, threaded to S, then updates S once with the current summary body, posts no
\* summary, and binds the key to S and the new reply.
C34_RecoveryWithoutReply ==
  \A h \in Handlers :
    (Done(h) /\ RecoverableWithoutReply(h) /\ Healthy(h))
      => LET w == Writes(h)
             m == buildMessages(loc[h].st)
         IN /\ gh[h].outcome = "ok"
            /\ Len(w) = 2
            /\ w[1].ts # Undefined /\ w[1].ts # gh[h].sum0
            /\ w[1] = Call("post", w[1].ts, gh[h].sum0, m.thread, TRUE)
            /\ w[2] = Call("update", gh[h].sum0, Undefined, m.main, TRUE)
            /\ msgs[w[1].ts].thread_ts = gh[h].sum0
            /\ gh[h].after = [ts |-> gh[h].sum0, thread_ts |-> w[1].ts,
                              last_main |-> m.main, last_thread |-> m.thread]

C34_Witness ==
  \E h \in Handlers :
    /\ Done(h) /\ RecoverableWithoutReply(h) /\ Healthy(h) /\ Len(Writes(h)) = 2
    /\ gh[h].rep0 = [none |-> Undefined, breakdown |-> Undefined]
    /\ Len(msgs) = 2

\* C35: a cycle that recovers a summary whose thread already holds a detail reply, the
\* "no checks" sentinel or the breakdown, posts nothing when no transport call fails, whatever
\* the aggregated state is.
C35_ReuseEitherForm ==
  \A h \in Handlers :
    (Done(h) /\ gh[h].pre = NoRec /\ gh[h].sum0 # Undefined /\ loc[h].st # NoState /\ Healthy(h)
       /\ (gh[h].rep0.none # Undefined \/ gh[h].rep0.breakdown # Undefined))
      => \A i \in 1..Len(gh[h].calls) : gh[h].calls[i].op # "post"

\* the history scan of the cycle failed
HistoryFailed(h) == \E i \in 1..Len(gh[h].calls) : gh[h].calls[i].op = "history" /\ ~gh[h].calls[i].ok

\* C36: a cycle that finds no record and whose history scan fails issues no post and no
\* update and writes no record.
C36_HistoryFailureAborts ==
  \A h \in Handlers :
    (gh[h].pre = NoRec /\ HistoryFailed(h))
      => (Writes(h) = <<>> /\ (Done(h) => gh[h].after = NoRec))

\* the messages a cycle has posted
PostedBy(h) == {gh[h].calls[i].ts : i \in {j \in 1..Len(gh[h].calls) : gh[h].calls[j].op = "post" /\ gh[h].calls[j].ok}}

\* the cycle before this one was for the same key and aborted on a failed post or update
RetriesAborted(h) ==
  /\ prev.pc = "cycle" /\ prev.num = loc[h].num
  /\ prev.outcome = "aborted" /\ prev.failed \in {"post", "update"}

\* C37: when a cycle aborted on a failed post or update, the next cycle for the key, if no call
\* of it fails, ends with the key bound, and the two cycles together have posted at most one
\* summary and at most one detail.
C37_RetryFromSameState ==
  \A h \in Handlers :
    (Done(h) /\ RetriesAborted(h) /\ gh[h].outcome = "ok" /\ Healthy(h))
      => /\ gh[h].after # NoRec
         /\ \A kind \in {"summary", "detail"} :
              Cardinality({ts \in prev.posted \cup PostedBy(h) : msgs[ts].origin.kind = kind}) <= 1

\* ---- every handler
\* a notification of a lifecycle, review or check handler was handled
Synced == kw.pc = "synced"

\* the record of the pull request holds the bodies rendered from this state
BoundTo(state) ==
  /\ Has(cache, PrKey(1))
  /\ StorageGet(cache, PrKey(1)).last_main = buildMessages(state).main
  /\ StorageGet(cache, PrKey(1)).last_thread = buildMessages(state).thread

\* C31 as stated: a cycle in which the fetch of the pull request, of its reviews or of its
\* check runs fails issues no Slack call and leaves the store as it was.
C31_AggregationFailureAborts ==
  (Synced /\ kw.fail \in {"github"} \cup FetchFails) => (kw.sync = <<>> /\ kw.kept)

\* C31 amended: a cycle in which the fetch of the pull request fails issues no Slack call and
\* leaves the store as it was; a cycle in which only the fetch of the reviews or of the check
\* runs fails goes on with an empty list in its place and binds the key to what that renders.
C31_ItemFetchFailureAborts ==
  /\ (Synced /\ kw.fail = "github") => (kw.sync = <<>> /\ kw.kept)
  /\ (Synced /\ kw.fail = "listReviews") => BoundTo(AggState(1, Variant(NoReviewers, kw.variant.checks)))
  /\ (Synced /\ kw.fail = "listForRef") => BoundTo(AggState(1, Variant(kw.variant.reviewers, NoChecks)))

C31_Witness ==
  /\ Synced /\ kw.fail = "github" /\ kw.kind = [name |-> "check_run", action |-> "completed"]
  /\ Has(cache, PrKey(1)) /\ Len(msgs) = 2 /\ kw.sync = <<>>

\* C32: without a Slack client (the token or the channel is missing) no notification of any
\* handler, with or without a keyword in the comment, makes a Slack call or writes to the store.
C32_NothingWithoutSlack ==
  (kw.pc \in {"handled", "synced"} /\ ~inputs.slack)
    => /\ kw.sync = <<>>
       /\ cache = <<>> /\ msgs = <<>> /\ findCache = <<>>
       /\ kw.pc = "handled" => (kw.did.calls = <<>> /\ kw.did.kept /\ ~kw.did.rejected)

C32_Witness ==
  /\ kw.pc = "handled" /\ ~inputs.slack /\ kw.kind = [name |-> "issue_comment", action |-> "edited"]
  /\ kw.did.path = "slack disabled" /\ msgs = <<>>

\* some Slack request of processKeywordComment failed
KwRequestFailed == \E i \in 1..Len(kw.did.calls) : ~kw.did.calls[i].ok

\* C38: when a Slack request of processKeywordComment fails, whichever it is (the post of the
\* detail reply during the recovery of the parent included), the call still completes normally
\* and has written neither the record of the pull request nor a record of the comment.
C38_NoErrorEscapes ==
  (Handled /\ kw.did.matched /\ KwRequestFailed) => (~kw.did.rejected /\ kw.did.kept)

\* C39: a history scan of findMessageByKey ends after a bounded number of page requests whatever
\* successful pages the server returns, empty pages that announce more and carry a cursor
\* included: every request after the first finds the scan further on than the request before
\* it, so that no more than markerLimit requests are made.
C39_ScanTerminates ==
  (scan.pc # "idle" /\ scan.op = "findMessageByKey")
    => /\ Len(scan.limits) <= scan.markerLimit
       /\ \A i \in 2..Len(scan.limits) : scan.limits[i].scanned > scan.limits[i - 1].scanned

\* a comment delivery whose cycle left the key bound, and whose comment record then took the
\* place of the pull request's record in the store
EvictedByComment ==
  /\ kw.pc = "handled" /\ ~kw.ignored
  /\ kw.bound # NoRec
  /\ ~Has(cache, PrKey(1))
  /\ Has(cache, commentKey(1, kw.id))

\* the delivery that follows ran its cycle without a failing request
NextCycleHealthy ==
  /\ kw'.pc \in {"handled", "synced"}
  /\ \A i \in 1..Len(kw'.sync) : kw'.sync[i].ok

\* C40: when the record of a bound key has been evicted by the write of another key's record
\* (here the record of a keyword comment), the next notification for the key binds it again to
\* the same summary and the same detail reply and posts nothing.
C40_RebindAfterEviction ==
  [][(EvictedByComment /\ NextCycleHealthy)
       => /\ \A i \in 1..Len(kw'.sync) : kw'.sync[i].op # "post"
          /\ kw'.bound.ts = kw.bound.ts
          /\ kw'.bound.thread_ts = kw.bound.thread_ts]_vars
====
